---- MODULE Spec2Model ----
(***************************************************************************)
(* A model of the brokerage market-data gateway of the Backend repository: *)
(*   app/kis/token_manager.py   TokenManager (access-token cache + lock)   *)
(*   app/kis/client.py          KISClient (retry loop, rate limiter)       *)
(*   app/kis/cache.py           TTLCache                                   *)
(*   app/kis/transformers.py    sign adjustment, resampling                *)
(*   app/kis/ws_client.py       KISWSClient (approval key, stream loop)    *)
(*   app/routers/stocks.py      intraday pagination, /ws/current handler,  *)
(*                              overview and series handlers               *)
(* Each component has its own specification (SpecToken, SpecRateLimit,     *)
(* SpecRequest, SpecCache, SpecIntraday, SpecSign, SpecResample,           *)
(* SpecStream, SpecWsHandler, SpecRouter, SpecSources, SpecSharing) over   *)
(* the shared variable list; the variables of the other components stay at *)
(* their initial values.  SpecRateLimitFair is SpecRateLimit with the      *)
(* fairness the event loop gives the callers of the rate limiter.          *)
(***************************************************************************)
EXTENDS Integers, Sequences, FiniteSets, TLC

(***************************************************************************)
(* Python's Optional: None is the empty tuple, a present value x is <<x>>. *)
(***************************************************************************)
None == <<>>
Some(x) == <<x>>
Val(o) == o[1]

Max(a, b) == IF a >= b THEN a ELSE b

VARIABLES
  \* ---- TokenManager (class attributes) and its callers
  utcnow,          \* datetime.now(timezone.utc), in seconds
  access_token,    \* TokenManager._access_token : Optional token id
  expires_at,      \* TokenManager._expires_at   : Optional time
  lock,            \* TokenManager._lock         : Optional holder
  kis_app_key,     \* settings.kis_app_key / kis_app_secret configured?
  tpc,             \* caller -> position inside get_access_token
  tret,            \* caller -> Optional token returned
  terr,            \* caller -> Optional status_code of the KISError raised
  issue_calls,     \* number of POST /oauth2/tokenP calls sent
  tlog,            \* history of the callers (for the properties only)
  \* ---- KISClient rate limiter
  monotonic,           \* time.monotonic(), in ticks
  max_rps,             \* settings.kis_max_requests_per_second
  request_timestamps,  \* KISClient._request_timestamps (deque, oldest first)
  rate_limit_lock,     \* KISClient._rate_limit_lock : Optional holder
  rpc,                 \* caller -> position inside _acquire_rate_limit_slot
  rwake,               \* caller -> time its asyncio.sleep ends
  grants,              \* the timestamps of all slots granted, in order
  \* ---- KISClient.request (one call)
  kis_base_url,    \* settings.kis_base_url configured?
  retries,         \* the retries argument
  attempt,         \* the loop variable of "for attempt in range(retries + 1)"
  qpc,             \* position inside request
  exc,             \* the exception caught by the except clause
  outcome,         \* what crossed the boundary: a return or a raised error
  events,          \* what the call did, in order
  last_status,     \* HTTP status of the last upstream answer (0: no answer)
  attempt_errors,  \* the exception each failed attempt ended with, in order
  request_sleeps,  \* the arguments of asyncio.sleep, in tenths of a second
  \* ---- TTLCache (its clock is monotonic)
  store,            \* TTLCache._store: entries [key, expires_at, value] in
                    \* insertion order (the iteration order of a dict)
  next_cleanup_at,  \* TTLCache._next_cleanup_at
  last_set,         \* Optional: the set made since the last get, if any
  last_get,         \* Optional: the get just made, at the current time
  live,             \* key -> Optional: the last set(key, v, T) with T > 0
  \* ---- _fetch_intraday_full_session / _fetch_intraday_page (one call)
  cursor,                  \* HHMMSS, as a number
  merged_rows,             \* the rows accumulated, in order
  seen_keys,               \* the (date, time) keys of merged_rows
  first_payload,           \* Optional: the first page's payload was received
  calls,                   \* iterations of "for _ in range(max_calls)" begun
  ipc,                     \* position: "fetch", "done" or "raised"
  transient_retry_count,   \* of the _fetch_intraday_page call in progress
  rate_limit_retry_count,  \* of the _fetch_intraday_page call in progress
  last_failure,            \* Optional: the page failure just handled
  page_dates,              \* the stck_bsop_date values the pages answered so far held
  \* ---- sign adjustment: _apply_sign (REST) and _to_signed (stream)
  prdy_vrss,       \* the raw value field: Optional text
  prdy_vrss_sign,  \* the raw sign code: Optional text
  change,          \* what _apply_sign made of them, once it has run
  ws_change,       \* what _to_signed made of them, once it has run
  \* ---- _resample_points (one call)
  raw_points,        \* the points argument, in the caller's order
  interval_minutes,  \* the interval_minutes argument
  resampled,         \* the list returned, once the call has run
  \* ---- KISWSClient: the approval key and one stream_current_price call
  approval_key,         \* KISWSClient._approval_key : Optional key
  approval_expires_at,  \* KISWSClient._approval_expires_at : Optional time
  ws_lock,              \* KISWSClient._lock : Optional holder
  spc,                  \* position inside stream_current_price
  retry_count,          \* the local retry_count
  backoff,              \* the argument of the last asyncio.sleep(backoff)
  key_source,           \* where the last approval key came from
  last_exit,            \* why the last pass through the loop body ended
  consecutive_failures, \* failures counted since the last subscribe
  \* ---- the /ws/current handler (one request); its stream task is the
  \*      stream_current_price call above
  code_valid,           \* the code query parameter matches _ALNUM6_RE
  hpc,                  \* position inside the handler
  disconnect_task,      \* state of the _wait_disconnect task
  wait_done,            \* the done set asyncio.wait returned
  stream_cancel_called, \* stream_task.cancel() was called
  \* ---- get_stock_overview / get_stock_series requests; the cache is store,
  \*      next_cleanup_at and the clock monotonic of the TTLCache above
  cooldown_seconds,     \* settings.series_cache_bypass_cooldown_seconds
  rq,                   \* request slot -> the request it is serving
  last_honored,         \* client -> Optional time its last bypass was honoured
  last_response,        \* the request answered last and its answer
  \* ---- get_stock_series, range 1d: from the intraday reconstruction to
  \*      the response (one request)
  series_pc,            \* position inside the handler
  regular_rows,         \* Optional: output2 of the intraday reconstruction
  overtime_time_data,   \* output2 of the time-indexed overtime payload
  overtime_daily_data,  \* output2 of the daily overtime payload
  overtime_price_data,  \* Optional: output of the overtime price payload
  failed_sources,       \* the local failed_sources, as a set
  source_attempts,      \* source -> number of calls of its fetch function
  series_result,        \* how the request ended, the points returned, and the
                        \* locals overtime_rows and merged_rows of lines 836-844
  \* ---- several stream_current_price loops sharing the class attributes
  \*      _approval_key, _approval_expires_at and _lock of KISWSClient
  apc,                  \* stream -> position of its loop
  used_key,             \* stream -> Optional approval key of its last attempt
  key_via,              \* stream -> how _get_approval_key returned that key
  approval_calls,       \* POSTs sent to /oauth2/Approval
  invalidated_at        \* Optional: approval_calls at the last invalidation

tokenVars == <<utcnow, access_token, expires_at, lock, kis_app_key,
               tpc, tret, terr, issue_calls, tlog>>

rateVars == <<monotonic, max_rps, request_timestamps, rate_limit_lock, rpc, rwake,
              grants>>

requestVars == <<kis_base_url, retries, attempt, qpc, exc, outcome, events,
                 last_status, attempt_errors, request_sleeps>>

cacheVars == <<store, next_cleanup_at, last_set, last_get, live>>

intradayVars == <<cursor, merged_rows, seen_keys, first_payload, calls, ipc,
                  transient_retry_count, rate_limit_retry_count, last_failure,
                  page_dates>>

signVars == <<prdy_vrss, prdy_vrss_sign, change, ws_change>>

\* the components of the request path, and the ones modelled after them
coreVars == <<tokenVars, rateVars, requestVars, cacheVars, intradayVars>>
resampleVars == <<raw_points, interval_minutes, resampled>>

streamVars == <<approval_key, approval_expires_at, ws_lock, spc, retry_count,
                backoff, key_source, last_exit, consecutive_failures>>

handlerVars == <<code_valid, hpc, disconnect_task, wait_done, stream_cancel_called>>

routerVars == <<cooldown_seconds, rq, last_honored, last_response>>

sourcesVars == <<series_pc, regular_rows, overtime_time_data, overtime_daily_data,
                 overtime_price_data, failed_sources, source_attempts,
                 series_result>>

sharingVars == <<apc, used_key, key_via, approval_calls, invalidated_at>>

extVars == <<signVars, resampleVars, streamVars, handlerVars, routerVars,
             sourcesVars, sharingVars>>

vars == <<coreVars, extVars>>

\* what the actions of one component leave alone
notToken == <<rateVars, requestVars, cacheVars, intradayVars, extVars>>
notRate == <<tokenVars, requestVars, cacheVars, intradayVars, extVars>>
notRequest == <<rateVars, cacheVars, intradayVars, extVars, lock, tpc, tret, terr, tlog>>
notCache == <<tokenVars, requestVars, intradayVars, extVars, max_rps,
              request_timestamps, rate_limit_lock, rpc, rwake, grants>>
notIntraday == <<tokenVars, rateVars, requestVars, cacheVars, extVars>>
notSign == <<coreVars, resampleVars, streamVars, handlerVars, routerVars,
             sourcesVars, sharingVars>>
notResample == <<coreVars, signVars, streamVars, handlerVars, routerVars,
                 sourcesVars, sharingVars>>
notSources == <<coreVars, signVars, resampleVars, streamVars, handlerVars,
                routerVars, sharingVars>>
notStream == <<rateVars, requestVars, cacheVars, intradayVars, signVars,
               resampleVars, handlerVars, routerVars, sourcesVars, sharingVars,
               access_token, expires_at,
               lock, tpc, tret, terr, issue_calls, tlog>>
notSharing == <<rateVars, requestVars, cacheVars, intradayVars, signVars,
                resampleVars, handlerVars, routerVars, sourcesVars, access_token,
                expires_at, lock, tpc, tret, terr, issue_calls, tlog,
                spc, retry_count, backoff, key_source, last_exit,
                consecutive_failures>>
notHandler == <<coreVars, signVars, resampleVars, routerVars, sourcesVars,
                sharingVars, approval_key,
                approval_expires_at, retry_count, backoff, key_source, last_exit,
                consecutive_failures>>
notRouter == <<tokenVars, requestVars, intradayVars, signVars, resampleVars,
               streamVars, handlerVars, sourcesVars, sharingVars, max_rps,
               request_timestamps,
               rate_limit_lock, rpc, rwake, grants, last_set, last_get, live>>

----------------------------------------------------------------------------
(***************************************************************************)
(*                   TokenManager  (token_manager.py)                      *)
(***************************************************************************)

\* timedelta(seconds=60): the safety margin before expiry
Margin == 60

\* horizon of the UTC clock of SpecToken
MaxUtc == 3

Callers == {"c1", "c2"}

\* status codes the token endpoint may answer with an error
TokenErrorStatuses == {401, 500}

\* expires_in values of a successful issuance response
ExpiresInValues == {Margin - 1, Margin, Margin + 1, Margin + MaxUtc + 1}

\* what the token endpoint can do to one POST
TokenResponses ==
  [net_ok : {FALSE}, status : {0}, json : {FALSE}, fields : {FALSE}, expires_in : {0}]
  \cup [net_ok : {TRUE}, status : TokenErrorStatuses, json : {FALSE}, fields : {FALSE}, expires_in : {0}]
  \cup [net_ok : {TRUE}, status : {200}, json : {FALSE}, fields : {FALSE}, expires_in : {0}]
  \cup [net_ok : {TRUE}, status : {200}, json : {TRUE}, fields : {FALSE}, expires_in : {0}]
  \cup [net_ok : {TRUE}, status : {200}, json : {TRUE}, fields : {TRUE}, expires_in : ExpiresInValues]

\* the freshness test without the 60 s margin
TokenFreshNoMargin(tok, exp, now) ==
  tok # None /\ exp # None /\ now < Val(exp)

\* the cached token is usable: present and now < expires_at - 60 s
TokenFresh(tok, exp, now) ==
  tok # None /\ exp # None /\ now < Val(exp) - Margin

\* _issue_token after the POST was sent: the result of one response
IssueResult(resp) ==
  IF ~resp.net_ok THEN [ok |-> FALSE, status_code |-> 502, expires_in |-> 0]
  ELSE IF resp.status >= 400
    THEN [ok |-> FALSE, status_code |-> resp.status, expires_in |-> 0]
  ELSE IF ~resp.json THEN [ok |-> FALSE, status_code |-> 502, expires_in |-> 0]
  ELSE IF ~resp.fields THEN [ok |-> FALSE, status_code |-> 502, expires_in |-> 0]
  ELSE [ok |-> TRUE, status_code |-> 200, expires_in |-> resp.expires_in]

\* the check a caller makes after it has acquired the lock (lines 37-39)
RecheckNone(tok, exp, now) == FALSE

RecheckUnderLock(tok, exp, now) == TokenFresh(tok, exp, now)

\* a lock that an exception would leave with its holder
LockKeptOnError(holder, raised) == IF raised THEN Some(holder) ELSE None

\* line 35: `async with cls._lock` releases the lock however the block is
\* left, by a return or by the exception of _issue_token
LockAfterBlock(holder, raised) == None

\* the token cache at the start: empty, or a token issued earlier that is
\* inside the margin, or one that stays usable for two more seconds
InitialTokens == {<<None, None>>, <<Some(0), Some(Margin)>>, <<Some(0), Some(Margin + 2)>>}

InFlight(c) == tpc[c] \in {"fast", "acquire", "recheck", "issuing"}

InitToken ==
  /\ utcnow = 0
  /\ kis_app_key \in BOOLEAN
  /\ \E init \in InitialTokens :
       /\ access_token = init[1]
       /\ expires_at = init[2]
       /\ init[1] # None => kis_app_key
  /\ lock = None
  /\ tpc = [c \in Callers |-> "idle"]
  /\ tret = [c \in Callers |-> None]
  /\ terr = [c \in Callers |-> None]
  /\ issue_calls = 0
  /\ tlog = [c \in Callers |->
              [stale_at_call |-> FALSE, overlapped |-> FALSE, issued |-> FALSE,
               checked_at |-> 0, calls_at_call |-> 0, exp_issued |-> 0]]

\* a caller invokes TokenManager.get_access_token
TokenInvoke(c) ==
  /\ UNCHANGED notToken
  /\ tpc[c] = "idle"
  /\ tpc' = [tpc EXCEPT ![c] = "fast"]
  /\ tlog' = [d \in Callers |->
       IF d = c
         THEN [tlog[c] EXCEPT
                 !.stale_at_call = ~TokenFresh(access_token, expires_at, utcnow),
                 !.overlapped = \E o \in Callers \ {c} : InFlight(o),
                 !.calls_at_call = issue_calls]
       ELSE IF InFlight(d) THEN [tlog[d] EXCEPT !.overlapped = TRUE]
       ELSE tlog[d]]
  /\ UNCHANGED <<utcnow, access_token, expires_at, lock, kis_app_key, tret, terr,
                 issue_calls>>

\* lines 31-33: the check without the lock
TokenFastPath(c) ==
  /\ UNCHANGED notToken
  /\ tpc[c] = "fast"
  /\ tlog' = [tlog EXCEPT ![c].checked_at = utcnow]
  /\ IF TokenFresh(access_token, expires_at, utcnow)
       THEN /\ tpc' = [tpc EXCEPT ![c] = "done"]
            /\ tret' = [tret EXCEPT ![c] = access_token]
       ELSE /\ tpc' = [tpc EXCEPT ![c] = "acquire"]
            /\ UNCHANGED tret
  /\ UNCHANGED <<utcnow, access_token, expires_at, lock, kis_app_key, terr, issue_calls>>

\* line 35: async with cls._lock
TokenAcquire(c) ==
  /\ UNCHANGED notToken
  /\ tpc[c] = "acquire"
  /\ lock = None
  /\ lock' = Some(c)
  /\ tpc' = [tpc EXCEPT ![c] = "recheck"]
  /\ UNCHANGED <<utcnow, access_token, expires_at, kis_app_key, tret, terr,
                 issue_calls, tlog>>

\* lines 37-41 and 47-65: re-check; else _issue_token up to the POST
TokenRecheck(c) ==
  /\ UNCHANGED notToken
  /\ tpc[c] = "recheck"
  /\ tlog' = [tlog EXCEPT ![c].checked_at = utcnow]
  /\ IF RecheckUnderLock(access_token, expires_at, utcnow)
       THEN /\ tpc' = [tpc EXCEPT ![c] = "done"]
            /\ tret' = [tret EXCEPT ![c] = access_token]
            /\ lock' = None
            /\ UNCHANGED <<terr, issue_calls>>
     ELSE IF ~kis_app_key
       THEN /\ tpc' = [tpc EXCEPT ![c] = "failed"]
            /\ terr' = [terr EXCEPT ![c] = Some(500)]
            /\ lock' = LockAfterBlock(c, TRUE)
            /\ UNCHANGED <<tret, issue_calls>>
     ELSE /\ tpc' = [tpc EXCEPT ![c] = "issuing"]
          /\ issue_calls' = issue_calls + 1
          /\ UNCHANGED <<tret, terr, lock>>
  /\ UNCHANGED <<utcnow, access_token, expires_at, kis_app_key>>

\* lines 66-85 and 42-44: the response arrives
TokenIssueResponse(c, resp) ==
  /\ UNCHANGED notToken
  /\ tpc[c] = "issuing"
  /\ LET r == IssueResult(resp) IN
       IF r.ok
         THEN /\ access_token' = Some(issue_calls)
              /\ expires_at' = Some(utcnow + r.expires_in)
              /\ tret' = [tret EXCEPT ![c] = Some(issue_calls)]
              /\ tpc' = [tpc EXCEPT ![c] = "done"]
              /\ tlog' = [tlog EXCEPT ![c].issued = TRUE,
                                       ![c].exp_issued = utcnow + r.expires_in]
              /\ UNCHANGED terr
         ELSE /\ terr' = [terr EXCEPT ![c] = Some(r.status_code)]
              /\ tpc' = [tpc EXCEPT ![c] = "failed"]
              /\ UNCHANGED <<access_token, expires_at, tret, tlog>>
  /\ lock' = LockAfterBlock(c, ~IssueResult(resp).ok)
  /\ UNCHANGED <<utcnow, kis_app_key, issue_calls>>

TokenTick ==
  /\ UNCHANGED notToken
  /\ utcnow < MaxUtc
  /\ utcnow' = utcnow + 1
  /\ UNCHANGED <<access_token, expires_at, lock, kis_app_key, tpc, tret, terr,
                 issue_calls, tlog>>

NextToken ==
  \/ \E c \in Callers : TokenInvoke(c)
  \/ \E c \in Callers : TokenFastPath(c)
  \/ \E c \in Callers : TokenAcquire(c)
  \/ \E c \in Callers : TokenRecheck(c)
  \/ \E c \in Callers : \E resp \in TokenResponses : TokenIssueResponse(c, resp)
  \/ TokenTick

\* the state of the TokenManager when it is not the component under study
IdleToken ==
  /\ utcnow = 0 /\ access_token = None /\ expires_at = None /\ lock = None
  /\ kis_app_key = TRUE
  /\ tpc = [c \in Callers |-> "idle"]
  /\ tret = [c \in Callers |-> None]
  /\ terr = [c \in Callers |-> None]
  /\ issue_calls = 0
  /\ tlog = [c \in Callers |->
              [stale_at_call |-> FALSE, overlapped |-> FALSE, issued |-> FALSE,
               checked_at |-> 0, calls_at_call |-> 0, exp_issued |-> 0]]

----------------------------------------------------------------------------
(***************************************************************************)
(*          KISClient._acquire_rate_limit_slot  (client.py)                *)
(***************************************************************************)

\* ticks of the monotonic clock per second: window_seconds = 1.0 is
\* TicksPerSecond ticks
TicksPerSecond == 2

\* horizon of the monotonic clock of SpecRateLimit
MaxMono == 5

\* largest kis_max_requests_per_second tried
MaxRps == 2

\* slots requested in one run of SpecRateLimit
MaxGrants == 4

RateCallers == {"r1", "r2"}

window_seconds == TicksPerSecond

\* the 0.001 s floor of the sleep, rounded up to the clock's resolution
min_sleep == 1

\* lines 127-128: drop the timestamps that have left the window
RECURSIVE PruneWindow(_, _)
PruneWindow(ts, cutoff) ==
  IF ts # <<>> /\ Head(ts) <= cutoff THEN PruneWindow(Tail(ts), cutoff) ELSE ts

\* line 130: the window has room for one more request
HasFreeSlotOffByOne(ts, limit) == Len(ts) <= limit

HasFreeSlot(ts, limit) == Len(ts) < limit

\* a sleep without the floor, as long as the window is wide
SleepWholeWindow(oldest, now) == window_seconds + 1

\* line 135
SleepSeconds(oldest, now) == Max((oldest + window_seconds) - now, min_sleep)

InitRate ==
  /\ monotonic = 0
  /\ max_rps \in 0..MaxRps
  /\ request_timestamps = <<>>
  /\ rate_limit_lock = None
  /\ rpc = [c \in RateCallers |-> "idle"]
  /\ rwake = [c \in RateCallers |-> 0]
  /\ grants = <<>>

IdleRate ==
  /\ monotonic = 0 /\ max_rps = 0 /\ request_timestamps = <<>>
  /\ rate_limit_lock = None
  /\ rpc = [c \in RateCallers |-> "idle"]
  /\ rwake = [c \in RateCallers |-> 0]
  /\ grants = <<>>

Requested == Len(grants) + Cardinality({c \in RateCallers : rpc[c] # "idle"})

\* lines 117-119: a caller enters; with no limit configured it returns at once
RateInvoke(c) ==
  /\ UNCHANGED notRate
  /\ rpc[c] = "idle"
  /\ Requested < MaxGrants
  /\ IF max_rps <= 0
       THEN /\ grants' = Append(grants, monotonic)
            /\ UNCHANGED rpc
       ELSE /\ rpc' = [rpc EXCEPT ![c] = "acquire"]
            /\ UNCHANGED grants
  /\ UNCHANGED <<monotonic, max_rps, request_timestamps, rate_limit_lock, rwake>>

\* line 124: async with self._rate_limit_lock
RateAcquireLock(c) ==
  /\ UNCHANGED notRate
  /\ rpc[c] = "acquire"
  /\ rate_limit_lock = None
  /\ rate_limit_lock' = Some(c)
  /\ rpc' = [rpc EXCEPT ![c] = "locked"]
  /\ UNCHANGED <<monotonic, max_rps, request_timestamps, rwake, grants>>

\* lines 125-135: the body under the lock; the lock is released on leaving it
RateLockedBody(c) ==
  /\ UNCHANGED notRate
  /\ rpc[c] = "locked"
  /\ LET now == monotonic
         cutoff == now - window_seconds
         kept == PruneWindow(request_timestamps, cutoff)
     IN IF HasFreeSlot(kept, max_rps)
          THEN /\ request_timestamps' = Append(kept, now)
               /\ grants' = Append(grants, now)
               /\ rpc' = [rpc EXCEPT ![c] = "idle"]
               /\ UNCHANGED rwake
          ELSE /\ request_timestamps' = kept
               /\ rwake' = [rwake EXCEPT ![c] = now + SleepSeconds(Head(kept), now)]
               /\ rpc' = [rpc EXCEPT ![c] = "sleeping"]
               /\ UNCHANGED grants
  /\ rate_limit_lock' = None
  /\ UNCHANGED <<monotonic, max_rps>>

\* line 136: asyncio.sleep(sleep_seconds) is over; back to the top of the loop
RateWake(c) ==
  /\ UNCHANGED notRate
  /\ rpc[c] = "sleeping"
  /\ monotonic >= rwake[c]
  /\ rpc' = [rpc EXCEPT ![c] = "acquire"]
  /\ UNCHANGED <<monotonic, max_rps, request_timestamps, rate_limit_lock, rwake, grants>>

RateTick ==
  /\ UNCHANGED notRate
  /\ monotonic < MaxMono
  /\ monotonic' = monotonic + 1
  /\ UNCHANGED <<max_rps, request_timestamps, rate_limit_lock, rpc, rwake, grants>>

NextRate ==
  \/ \E c \in RateCallers : RateInvoke(c)
  \/ \E c \in RateCallers : RateAcquireLock(c)
  \/ \E c \in RateCallers : RateLockedBody(c)
  \/ \E c \in RateCallers : RateWake(c)
  \/ RateTick

\* the clock as the sleepers need it: it does not stop at the horizon while
\* an asyncio.sleep of line 136 is still running
RateTickWaiting ==
  /\ UNCHANGED notRate
  /\ \/ monotonic < MaxMono
     \/ \E c \in RateCallers : rpc[c] = "sleeping" /\ monotonic < rwake[c]
  /\ monotonic' = monotonic + 1
  /\ UNCHANGED <<max_rps, request_timestamps, rate_limit_lock, rpc, rwake, grants>>

NextRateFair ==
  \/ \E c \in RateCallers : RateInvoke(c)
  \/ \E c \in RateCallers : RateAcquireLock(c)
  \/ \E c \in RateCallers : RateLockedBody(c)
  \/ \E c \in RateCallers : RateWake(c)
  \/ RateTickWaiting

\* the event loop runs every task that is ready and lets time pass; an
\* asyncio.Lock hands itself to its waiters in turn, so a caller waiting for
\* the lock, which is released again and again, gets it
FairnessRate ==
  /\ WF_vars(RateTickWaiting)
  /\ \A c \in RateCallers :
       /\ WF_vars(RateLockedBody(c))
       /\ WF_vars(RateWake(c))
       /\ SF_vars(RateAcquireLock(c))

----------------------------------------------------------------------------
(***************************************************************************)
(*                    KISClient.request  (client.py)                       *)
(***************************************************************************)

\* largest retries argument tried
MaxRetries == 2

\* HTTP status codes of an error answer to the data call
DataErrorStatuses == {404, 408, 429, 500}

\* what the upstream can do to one dispatched data call
DataResponses ==
  [net : {"timeout", "connect_error"}, status : {0}, json : {FALSE}]
  \cup [net : {"ok"}, status : DataErrorStatuses \cup {200}, json : BOOLEAN]

NoExc == [type |-> "none", status_code |-> 0, cause |-> "none", source |-> "none"]

KISError(status_code, cause, source) ==
  [type |-> "KISError", status_code |-> status_code, cause |-> cause, source |-> source]

\* lines 79-107: the result of client.request for one response
DispatchResult(resp) ==
  IF resp.net = "timeout"
    THEN [type |-> "httpx.TimeoutException", status_code |-> 0, cause |-> "network",
          source |-> "dispatch"]
  ELSE IF resp.net = "connect_error"
    THEN [type |-> "httpx.RequestError", status_code |-> 0, cause |-> "network",
          source |-> "dispatch"]
  ELSE IF resp.status >= 400 THEN KISError(resp.status, "http_status", "dispatch")
  ELSE IF ~resp.json THEN KISError(502, "non_json", "dispatch")
  ELSE NoExc

\* the KISError _issue_token raises for one response (token_manager.py 66-83)
IssueError(resp) ==
  KISError(IssueResult(resp).status_code,
           IF ~resp.net_ok THEN "network"
           ELSE IF resp.status >= 400 THEN "http_status"
           ELSE IF ~resp.json THEN "non_json" ELSE "missing_fields",
           "token")

\* lines 138-145: _is_retriable_error
RetryEverything(e) == TRUE

IsRetriableError(e) ==
  IF e.type \in {"httpx.TimeoutException", "httpx.RequestError"} THEN TRUE
  ELSE IF e.type = "KISError"
    THEN e.status_code \in {408, 429} \/ e.status_code >= 500
  ELSE FALSE

\* lines 112-114: what the except clause raises when it does not retry
RaiseUnconverted(e) == e

RaisedFrom(e) ==
  IF e.type = "KISError" THEN e
  ELSE KISError(502, e.cause, e.source)

\* a backoff of the same length before every retry
RetrySleepConstant(failed_attempt) == 2

\* line 110: asyncio.sleep(0.2 * (attempt + 1)), in tenths of a second
RetrySleep(failed_attempt) == 2 * (failed_attempt + 1)

InitRequest ==
  /\ kis_base_url \in BOOLEAN
  /\ retries \in 0..MaxRetries
  /\ attempt = 0
  /\ qpc = "start"
  /\ exc = NoExc
  /\ outcome = NoExc
  /\ events = <<>>
  /\ last_status = 0
  /\ attempt_errors = <<>>
  /\ request_sleeps = <<>>

IdleRequest ==
  /\ kis_base_url = TRUE /\ retries = 0 /\ attempt = 0 /\ qpc = "idle"
  /\ exc = NoExc /\ outcome = NoExc /\ events = <<>> /\ last_status = 0
  /\ attempt_errors = <<>> /\ request_sleeps = <<>>

\* the token cache and the settings at the start of a request
InitRequestToken ==
  /\ utcnow = 0
  /\ kis_app_key \in BOOLEAN
  /\ \E init \in InitialTokens :
       /\ access_token = init[1]
       /\ expires_at = init[2]
       /\ init[1] # None => kis_app_key
  /\ lock = None
  /\ tpc = [c \in Callers |-> "idle"]
  /\ tret = [c \in Callers |-> None]
  /\ terr = [c \in Callers |-> None]
  /\ issue_calls = 0
  /\ tlog = [c \in Callers |->
              [stale_at_call |-> FALSE, overlapped |-> FALSE, issued |-> FALSE,
               checked_at |-> 0, calls_at_call |-> 0, exp_issued |-> 0]]

\* lines 61-66: the base URL check, before the loop
RequestStart ==
  /\ UNCHANGED notRequest
  /\ qpc = "start"
  /\ IF ~kis_base_url
       THEN /\ qpc' = "raised"
            /\ outcome' = KISError(500, "config", "request")
       ELSE /\ qpc' = "token"
            /\ UNCHANGED outcome
  /\ UNCHANGED <<request_sleeps, kis_base_url, retries, attempt, exc, events, last_status, attempt_errors>>
  /\ UNCHANGED <<utcnow, access_token, expires_at, kis_app_key, issue_calls>>

\* line 68: TokenManager.get_access_token answers from the cache
RequestTokenCached ==
  /\ UNCHANGED notRequest
  /\ qpc = "token"
  /\ TokenFresh(access_token, expires_at, utcnow)
  /\ qpc' = "slot"
  /\ events' = Append(events, "token")
  /\ UNCHANGED <<request_sleeps, kis_base_url, retries, attempt, exc, outcome, last_status, attempt_errors>>
  /\ UNCHANGED <<utcnow, access_token, expires_at, kis_app_key, issue_calls>>

\* line 68: get_access_token has to issue, and the key or secret is not set
RequestTokenUnconfigured ==
  /\ UNCHANGED notRequest
  /\ qpc = "token"
  /\ ~TokenFresh(access_token, expires_at, utcnow)
  /\ ~kis_app_key
  /\ qpc' = "except"
  /\ exc' = KISError(500, "config", "token")
  /\ UNCHANGED <<request_sleeps, kis_base_url, retries, attempt, outcome, events, last_status, attempt_errors>>
  /\ UNCHANGED <<utcnow, access_token, expires_at, kis_app_key, issue_calls>>

\* line 68: get_access_token issues a token; resp is the endpoint's answer
RequestTokenIssue(resp) ==
  /\ UNCHANGED notRequest
  /\ qpc = "token"
  /\ ~TokenFresh(access_token, expires_at, utcnow)
  /\ kis_app_key
  /\ issue_calls' = issue_calls + 1
  /\ last_status' = IF resp.net_ok THEN resp.status ELSE 0
  /\ LET r == IssueResult(resp) IN
       IF r.ok
         THEN /\ access_token' = Some(issue_calls + 1)
              /\ expires_at' = Some(utcnow + r.expires_in)
              /\ qpc' = "slot"
              /\ events' = Append(events, "token")
              /\ UNCHANGED exc
         ELSE /\ qpc' = "except"
              /\ exc' = IssueError(resp)
              /\ UNCHANGED <<access_token, expires_at, events>>
  /\ UNCHANGED <<request_sleeps, kis_base_url, retries, attempt, outcome, attempt_errors>>
  /\ UNCHANGED <<utcnow, kis_app_key>>

\* line 78: await self._acquire_rate_limit_slot()
RequestAcquireSlot ==
  /\ UNCHANGED notRequest
  /\ qpc = "slot"
  /\ qpc' = "dispatch"
  /\ events' = Append(events, "slot")
  /\ UNCHANGED <<request_sleeps, kis_base_url, retries, attempt, exc, outcome, last_status, attempt_errors>>
  /\ UNCHANGED <<utcnow, access_token, expires_at, kis_app_key, issue_calls>>

\* lines 79-107: the call is dispatched and resp comes back
RequestDispatch(resp) ==
  /\ UNCHANGED notRequest
  /\ qpc = "dispatch"
  /\ events' = Append(events, "dispatch")
  /\ last_status' = IF resp.net = "ok" THEN resp.status ELSE 0
  /\ LET e == DispatchResult(resp) IN
       IF e = NoExc
         THEN /\ qpc' = "returned"
              /\ outcome' = [NoExc EXCEPT !.type = "json"]
              /\ UNCHANGED exc
         ELSE /\ qpc' = "except"
              /\ exc' = e
              /\ UNCHANGED outcome
  /\ UNCHANGED <<request_sleeps, kis_base_url, retries, attempt, attempt_errors>>
  /\ UNCHANGED <<utcnow, access_token, expires_at, kis_app_key, issue_calls>>

\* lines 108-114: the except clause
RequestExcept ==
  /\ UNCHANGED notRequest
  /\ qpc = "except"
  /\ attempt_errors' = Append(attempt_errors, exc)
  /\ IF attempt < retries /\ IsRetriableError(exc)
       THEN /\ qpc' = "backoff"
            /\ events' = Append(events, "sleep")
            /\ request_sleeps' = Append(request_sleeps, RetrySleep(attempt))
            /\ UNCHANGED outcome
       ELSE /\ qpc' = "raised"
            /\ outcome' = RaisedFrom(exc)
            /\ UNCHANGED <<events, request_sleeps>>
  /\ UNCHANGED <<kis_base_url, retries, attempt, exc, last_status>>
  /\ UNCHANGED <<utcnow, access_token, expires_at, kis_app_key, issue_calls>>

\* line 110: asyncio.sleep(0.2 * (attempt + 1)) is over; the next attempt
RequestBackoffDone ==
  /\ UNCHANGED notRequest
  /\ qpc = "backoff"
  /\ qpc' = "token"
  /\ attempt' = attempt + 1
  /\ \E d \in {0, 1} : utcnow' = utcnow + d
  /\ UNCHANGED <<request_sleeps, kis_base_url, retries, exc, outcome, events, last_status, attempt_errors>>
  /\ UNCHANGED <<access_token, expires_at, kis_app_key, issue_calls>>

NextRequest ==
  \/ RequestStart
  \/ RequestTokenCached
  \/ RequestTokenUnconfigured
  \/ \E resp \in TokenResponses : RequestTokenIssue(resp)
  \/ RequestAcquireSlot
  \/ \E resp \in DataResponses : RequestDispatch(resp)
  \/ RequestExcept
  \/ RequestBackoffDone

----------------------------------------------------------------------------
(***************************************************************************)
(*                        TTLCache  (cache.py)                             *)
(***************************************************************************)

\* the constructor's arguments (30.0 s and 200 entries by default), scaled to
\* the model's clock and key set
cleanup_interval_seconds == 2
max_cleanup_per_run == 1

\* horizon of the monotonic clock of SpecCache
MaxCacheClock == 3

\* largest ttl_seconds passed to set
MaxTtl == 2

Keys == {"k1", "k2"}
Values == {"v1", "v2"}
Ttls == 0..MaxTtl

\* self._store.get(key): Optional entry
RECURSIVE Lookup(_, _)
Lookup(st, k) ==
  IF st = <<>> THEN None
  ELSE IF Head(st).key = k THEN Some(Head(st))
  ELSE Lookup(Tail(st), k)

\* self._store.pop(key, None)
RECURSIVE Pop(_, _)
Pop(st, k) ==
  IF st = <<>> THEN <<>>
  ELSE IF Head(st).key = k THEN Tail(st)
  ELSE <<Head(st)>> \o Pop(Tail(st), k)

\* self._store[key] = (expires_at, value): a key already present keeps its place
RECURSIVE Assign(_, _)
Assign(st, e) ==
  IF st = <<>> THEN <<e>>
  ELSE IF Head(st).key = e.key THEN <<e>> \o Tail(st)
  ELSE <<Head(st)>> \o Assign(Tail(st), e)

\* line 28: the entry get found has expired
GetExpiredStrict(exp, now) == exp < now

GetExpired(exp, now) == exp <= now

\* line 47: the entry the sweep looks at has expired
SweepEverything(exp, now) == TRUE

SweepExpired(exp, now) == exp <= now

\* line 34: set stores nothing
TtlNeverIgnored(ttl) == FALSE

TtlIgnored(ttl) == ttl <= 0

\* a sweep that never stops early
SweepLimitNever(removed) == FALSE

\* line 50: if removed >= self._max_cleanup_per_run: break
SweepLimitReached(removed) == removed >= max_cleanup_per_run

\* lines 45-51: the loop of the sweep; removed counts the entries removed
RECURSIVE SweepLoop(_, _, _)
SweepLoop(st, now, removed) ==
  IF st = <<>> THEN <<>>
  ELSE IF SweepExpired(Head(st).expires_at, now)
    THEN IF SweepLimitReached(removed + 1)
           THEN Tail(st)
           ELSE SweepLoop(Tail(st), now, removed + 1)
  ELSE <<Head(st)>> \o SweepLoop(Tail(st), now, removed)

\* lines 41-53: _cleanup_expired_locked, as the pair <<_store, _next_cleanup_at>>
CleanupExpiredLocked(st, next, now) ==
  IF now < next THEN <<st, next>>
  ELSE <<SweepLoop(st, now, 0), now + cleanup_interval_seconds>>

InitCache ==
  /\ monotonic = 0
  /\ store = <<>>
  /\ next_cleanup_at = 0
  /\ last_set = None
  /\ last_get = None
  /\ live = [k \in Keys |-> None]

IdleCache ==
  /\ store = <<>> /\ next_cleanup_at = 0 /\ last_set = None /\ last_get = None
  /\ live = [k \in Keys |-> None]

\* lines 20-31: get
CacheGet(k) ==
  /\ UNCHANGED notCache
  /\ LET now == monotonic
         swept == CleanupExpiredLocked(store, next_cleanup_at, now)
         entry == Lookup(swept[1], k)
         expired == entry # None /\ GetExpired(Val(entry).expires_at, now)
         result == IF entry = None \/ expired THEN None ELSE Some(Val(entry).value)
     IN /\ store' = IF expired THEN Pop(swept[1], k) ELSE swept[1]
        /\ next_cleanup_at' = swept[2]
        /\ last_get' = Some([key |-> k, result |-> result,
                              before |-> Lookup(store, k), after_set |-> last_set])
        /\ last_set' = None
  /\ UNCHANGED <<monotonic, live>>

\* lines 33-39: set; d is the time between its two readings of the clock
CacheSet(k, v, ttl, d) ==
  /\ UNCHANGED notCache
  /\ monotonic + d <= MaxCacheClock
  /\ last_set' = Some([key |-> k, ttl_positive |-> ttl > 0,
                        before |-> IF ttl > 0 THEN None ELSE Lookup(store, k)])
  /\ last_get' = None
  /\ IF TtlIgnored(ttl)
       THEN UNCHANGED <<monotonic, store, next_cleanup_at, live>>
       ELSE LET expires == monotonic + ttl
                assigned == Assign(store, [key |-> k, expires_at |-> expires, value |-> v])
                swept == CleanupExpiredLocked(assigned, next_cleanup_at, monotonic + d)
            IN /\ store' = swept[1]
               /\ next_cleanup_at' = swept[2]
               /\ monotonic' = monotonic + d
               /\ live' = [live EXCEPT ![k] = Some([value |-> v,
                                                    deadline |-> monotonic + ttl])]

CacheTick ==
  /\ UNCHANGED notCache
  /\ monotonic < MaxCacheClock
  /\ monotonic' = monotonic + 1
  /\ last_get' = None
  /\ UNCHANGED <<store, next_cleanup_at, last_set, live>>

NextCache ==
  \/ \E k \in Keys : CacheGet(k)
  \/ \E k \in Keys : \E v \in Values : \E ttl \in Ttls : \E d \in {0, 1} :
       CacheSet(k, v, ttl, d)
  \/ CacheTick

----------------------------------------------------------------------------
(***************************************************************************)
(*   _fetch_intraday_full_session, _fetch_intraday_page  (stocks.py)       *)
(***************************************************************************)

\* line 261
max_calls == 20

\* line 214
max_transient_retries == 2

\* _INTRADAY_RATE_LIMIT_RETRY_COUNT (line 35, from the settings)
intraday_rate_limit_retry_count == 1

\* "090000" and "153000" (lines 137-140, 150-158), as numbers
SessionOpen == 90000
SessionClose == 153000

\* datetime.now(tz=KST) as HHMMSS when the reconstruction starts
NowValues == {83000, 90230, 160000}

\* stck_bsop_date of an upstream row; today_kst is "today"
RawDates == {"today", "yesterday"}

\* stck_cntg_hour of an upstream row, as its digits: "090000", "0901",
\* "090100", "090200" and "0961" (no time of day)
RawTimes == {<<0, 9, 0, 0, 0, 0>>, <<0, 9, 0, 1>>, <<0, 9, 0, 1, 0, 0>>,
             <<0, 9, 0, 2, 0, 0>>, <<0, 9, 6, 1>>}

UpstreamRows == [stck_bsop_date : RawDates, stck_cntg_hour : RawTimes]

\* output2 of one page: up to two rows
Pages == {<<>>} \cup {<<r>> : r \in UpstreamRows}
         \cup {<<r1, r2>> : r1 \in UpstreamRows, r2 \in UpstreamRows}

\* the KISError a page request can end with: status_code is 200 for a
\* business error (rt_cd # "0"), code is msg_cd
PageErrors == [status_code : {200, 400, 500}, code : {"EGW00201", "OTHER"}]

\* lines 81-96: _normalize_hhmmss, Optional HHMMSS as a number
NormalizeHhmmss(raw) ==
  IF raw = <<>> THEN None
  ELSE LET text == IF Len(raw) = 4 THEN raw \o <<0, 0>> ELSE raw IN
    IF Len(text) = 5 THEN None
    ELSE IF Len(text) # 6 THEN None
    ELSE LET hour == text[1] * 10 + text[2]
             minute == text[3] * 10 + text[4]
             second == text[5] * 10 + text[6]
         IN IF ~(0 <= hour /\ hour <= 23 /\ 0 <= minute /\ minute <= 59
                 /\ 0 <= second /\ second <= 59)
              THEN None
              ELSE Some(hour * 10000 + minute * 100 + second)

\* lines 130-141: _minute_cursor_for_now
MinuteCursorForNow(now_hhmmss) ==
  IF now_hhmmss > SessionClose THEN SessionClose
  ELSE IF now_hhmmss < SessionOpen THEN SessionOpen
  ELSE now_hhmmss

\* lines 144-159: _previous_minute_cursor, of a normalized HHMMSS
PreviousMinuteCursor(hhmmss) ==
  IF hhmmss <= SessionOpen THEN SessionOpen
  ELSE LET secs == (hhmmss \div 10000) * 3600 + ((hhmmss \div 100) % 100) * 60
                   + (hhmmss % 100) - 60
           prev == (secs \div 3600) * 10000 + ((secs \div 60) % 60) * 100 + (secs % 60)
       IN IF prev < SessionOpen THEN SessionOpen ELSE prev

\* lines 122-127: _series_row_key (the dates of the model are normalized)
SeriesRowKey(row) == <<row.stck_bsop_date, NormalizeHhmmss(row.stck_cntg_hour)>>

\* lines 64-66: _is_kis_transient_error
IsKisTransientError(e) == e.status_code \in {408, 429} \/ e.status_code >= 500

\* lines 69-70: _is_kis_rate_limit_error
IsKisRateLimitError(e) == e.code = "EGW00201"

\* line 322: the key was merged before
NothingSeen(key, seen) == FALSE

AlreadySeen(key, seen) == key \in seen

\* lines 266-299: a page failure ends the reconstruction with the error
AnyFailureIsFatal(first) == TRUE

FailureIsFatal(first) == first = None

\* line 318: every date is taken for today's
NoOtherDate(date_text) == FALSE

\* line 318: date_text != today_kst, today_kst fixed at line 258
OtherDate(date_text) == date_text # "today"

\* lines 307-328: the loop over the rows of a page, from row i on; acc is
\* [merged, seen, oldest_time, page_oldest_time, crossed_prev_day, new_count]
RECURSIVE MergePage(_, _, _)
MergePage(page, i, acc) ==
  IF i > Len(page) THEN acc
  ELSE LET row == page[i]
           date_text == row.stck_bsop_date
           time_text == NormalizeHhmmss(row.stck_cntg_hour)
       IN IF time_text = None THEN MergePage(page, i + 1, acc)
          ELSE LET t == Val(time_text)
                   acc1 == [acc EXCEPT !.page_oldest_time =
                              IF acc.page_oldest_time = None \/ t < Val(acc.page_oldest_time)
                                THEN Some(t) ELSE acc.page_oldest_time]
               IN IF OtherDate(date_text)
                    THEN MergePage(page, i + 1, [acc1 EXCEPT !.crossed_prev_day = TRUE])
                  ELSE IF AlreadySeen(<<date_text, t>>, acc1.seen)
                    THEN MergePage(page, i + 1, acc1)
                  ELSE MergePage(page, i + 1,
                         [acc1 EXCEPT
                            !.seen = acc1.seen \cup {<<date_text, t>>},
                            !.merged = Append(acc1.merged, row),
                            !.new_count = acc1.new_count + 1,
                            !.oldest_time =
                               IF acc1.oldest_time = None \/ t < Val(acc1.oldest_time)
                                 THEN Some(t) ELSE acc1.oldest_time])

\* lines 330-350: Optional next cursor after a page; None is "break"
NextCursorAfterPage(acc, cur) ==
  IF acc.page_oldest_time = None THEN None
  ELSE IF acc.new_count = 0
    THEN LET next == PreviousMinuteCursor(Val(acc.page_oldest_time)) IN
           IF next = cur THEN None ELSE Some(next)
  ELSE IF acc.oldest_time = None THEN None
  ELSE IF Val(acc.oldest_time) <= SessionOpen THEN None
  ELSE IF acc.crossed_prev_day THEN None
  ELSE LET next == PreviousMinuteCursor(Val(acc.oldest_time)) IN
         IF next = cur THEN None ELSE Some(next)

InitIntraday ==
  /\ \E now \in NowValues : cursor = MinuteCursorForNow(now)
  /\ merged_rows = <<>>
  /\ seen_keys = {}
  /\ first_payload = None
  /\ calls = 1
  /\ ipc = "fetch"
  /\ transient_retry_count = 0
  /\ rate_limit_retry_count = 0
  /\ last_failure = None
  /\ page_dates = {}

IdleIntraday ==
  /\ cursor = SessionOpen /\ merged_rows = <<>> /\ seen_keys = {}
  /\ first_payload = None /\ calls = 0 /\ ipc = "idle"
  /\ transient_retry_count = 0 /\ rate_limit_retry_count = 0
  /\ last_failure = None
  /\ page_dates = {}

\* "continue": the next iteration calls _fetch_intraday_page afresh, or the
\* loop is over and lines 352-357 return the merged rows
ContinueLoop ==
  /\ transient_retry_count' = 0
  /\ rate_limit_retry_count' = 0
  /\ IF calls < max_calls
       THEN calls' = calls + 1 /\ ipc' = "fetch"
       ELSE calls' = calls /\ ipc' = "done"

\* "break": lines 352-357 return the merged rows
BreakLoop ==
  /\ transient_retry_count' = 0
  /\ rate_limit_retry_count' = 0
  /\ calls' = calls
  /\ ipc' = "done"

\* lines 218-232 and 300-350: the page request answers with output2 = page
IntradayPage(page) ==
  /\ UNCHANGED notIntraday
  /\ ipc = "fetch"
  /\ first_payload' = IF first_payload = None THEN Some(calls) ELSE first_payload
  /\ last_failure' = None
  /\ page_dates' = page_dates \cup {page[i].stck_bsop_date : i \in 1..Len(page)}
  /\ IF page = <<>>
       THEN /\ BreakLoop
            /\ UNCHANGED <<cursor, merged_rows, seen_keys>>
       ELSE LET acc == MergePage(page, 1,
                         [merged |-> merged_rows, seen |-> seen_keys,
                          oldest_time |-> None, page_oldest_time |-> None,
                          crossed_prev_day |-> FALSE, new_count |-> 0])
                next == NextCursorAfterPage(acc, cursor)
            IN /\ merged_rows' = acc.merged
               /\ seen_keys' = acc.seen
               /\ IF next = None
                    THEN BreakLoop /\ UNCHANGED cursor
                    ELSE ContinueLoop /\ cursor' = Val(next)

\* lines 233-246: the page request raised e and _fetch_intraday_page retries
IntradayPageRetry(e) ==
  /\ UNCHANGED notIntraday
  /\ ipc = "fetch"
  /\ last_failure' = None
  /\ IF IsKisRateLimitError(e)
       THEN /\ rate_limit_retry_count < intraday_rate_limit_retry_count
            /\ rate_limit_retry_count' = rate_limit_retry_count + 1
            /\ UNCHANGED transient_retry_count
       ELSE /\ IsKisTransientError(e)
            /\ transient_retry_count < max_transient_retries
            /\ transient_retry_count' = transient_retry_count + 1
            /\ UNCHANGED rate_limit_retry_count
  /\ UNCHANGED <<cursor, merged_rows, seen_keys, first_payload, calls, ipc,
                 page_dates>>

\* lines 241, 247 and 266-299: _fetch_intraday_page raised e
IntradayPageFailure(e) ==
  /\ UNCHANGED notIntraday
  /\ ipc = "fetch"
  /\ IF IsKisRateLimitError(e)
       THEN rate_limit_retry_count >= intraday_rate_limit_retry_count
       ELSE ~(IsKisTransientError(e) /\ transient_retry_count < max_transient_retries)
  /\ last_failure' = Some([transient |-> IsKisTransientError(e), cursor |-> cursor,
                           had_first |-> first_payload # None,
                           rows |-> merged_rows])
  /\ IF FailureIsFatal(first_payload)
       THEN /\ ipc' = "raised"
            /\ UNCHANGED <<cursor, calls, transient_retry_count, rate_limit_retry_count>>
     ELSE IF IsKisTransientError(e) /\ PreviousMinuteCursor(cursor) # cursor
       THEN /\ cursor' = PreviousMinuteCursor(cursor)
            /\ ContinueLoop
     ELSE /\ BreakLoop
          /\ UNCHANGED cursor
  /\ UNCHANGED <<merged_rows, seen_keys, first_payload, page_dates>>

NextIntraday ==
  \/ \E page \in Pages : IntradayPage(page)
  \/ \E e \in PageErrors : IntradayPageRetry(e)
  \/ \E e \in PageErrors : IntradayPageFailure(e)

----------------------------------------------------------------------------
(***************************************************************************)
(*    _apply_sign (transformers.py) and _to_signed (ws_client.py)          *)
(***************************************************************************)
\* A text is a tuple of one-character strings.  A float is held as a whole
\* number of tenths; the texts below have at most one fractional digit.

SIGN_POSITIVE == {"1", "2"}
SIGN_NEGATIVE == {"4", "5"}

DigitChars == <<"0", "1", "2", "3", "4", "5", "6", "7", "8", "9">>

IsDigit(ch) == \E n \in 1..Len(DigitChars) : DigitChars[n] = ch

DigitValue(ch) == (CHOOSE n \in 1..Len(DigitChars) : DigitChars[n] = ch) - 1

IsDigits(text) == \A i \in 1..Len(text) : IsDigit(text[i])

\* the value of a run of digits
RECURSIVE NatOf(_, _)
NatOf(text, acc) ==
  IF text = <<>> THEN acc ELSE NatOf(Tail(text), 10 * acc + DigitValue(Head(text)))

\* .replace(",", "")
RemoveCommas(text) == SelectSeq(text, LAMBDA ch : ch # ",")

\* .strip()
RECURSIVE StripLeft(_)
StripLeft(text) ==
  IF text # <<>> /\ Head(text) = " " THEN StripLeft(Tail(text)) ELSE text

RECURSIVE StripRight(_)
StripRight(text) ==
  IF text # <<>> /\ text[Len(text)] = " "
    THEN StripRight(SubSeq(text, 1, Len(text) - 1))
    ELSE text

Strip(text) == StripRight(StripLeft(text))

\* float(text) for an unsigned text: digits with at most one point and at
\* least one digit; None stands for ValueError
FloatOfUnsigned(text) ==
  LET points == {i \in 1..Len(text) : text[i] = "."} IN
    IF points = {}
      THEN IF text # <<>> /\ IsDigits(text) THEN Some(10 * NatOf(text, 0)) ELSE None
    ELSE IF Cardinality(points) > 1 THEN None
    ELSE LET at == CHOOSE i \in points : TRUE
             whole == SubSeq(text, 1, at - 1)
             frac == SubSeq(text, at + 1, Len(text))
         IN IF ~IsDigits(whole) \/ ~IsDigits(frac) \/ (whole = <<>> /\ frac = <<>>)
              THEN None
              ELSE Some(10 * NatOf(whole, 0)
                        + (IF frac = <<>> THEN 0 ELSE DigitValue(frac[1])))

\* float(text)
FloatOf(text) ==
  IF text = <<>> THEN None
  ELSE IF Head(text) \in {"-", "+"}
    THEN LET u == FloatOfUnsigned(Tail(text)) IN
           IF u = None THEN None
           ELSE IF Head(text) = "-" THEN Some(0 - Val(u)) ELSE u
  ELSE FloatOfUnsigned(text)

\* _parse_float of an Optional text
ParseFloat(value) ==
  IF value = None THEN None
  ELSE LET text == Strip(RemoveCommas(Val(value))) IN
         IF text = <<>> THEN None ELSE FloatOf(text)

Abs(n) == IF n < 0 THEN 0 - n ELSE n

\* _apply_sign with the sign code left out of account
ApplySignIgnoringCode(value, sign) == ParseFloat(value)

\* _apply_sign
ApplySign(value, sign) ==
  LET num == ParseFloat(value)
      sign_text == IF sign # None THEN Val(sign) ELSE ""
  IN IF num = None THEN None
     ELSE IF Val(num) < 0 THEN num
     ELSE IF sign_text \in SIGN_NEGATIVE THEN Some(0 - Val(num))
     ELSE num

\* _to_signed; its parsing of the text is that of _parse_float
ToSigned(value, sign) ==
  LET num == ParseFloat(value)
      sign_text == IF sign = None THEN "" ELSE Val(sign)
  IN IF num = None THEN None
     ELSE IF sign_text \in {"4", "5"} THEN Some(0 - Abs(Val(num)))
     ELSE num

\* the raw field values the upstream may send
RawValues ==
  { None, Some(<<>>), Some(<<"0">>), Some(<<"1", "0", "0">>),
    Some(<<"-", "1", "0", "0">>), Some(<<"1", ",", "0", "0", "0">>),
    Some(<<" ", "5", " ">>), Some(<<"2", ".", "5">>), Some(<<"-", "2", ".", "5">>),
    Some(<<".", "5">>), Some(<<"7", ".">>), Some(<<"x">>), Some(<<"1", " ", "0">>),
    Some(<<"-">>), Some(<<"1", ".", "2", ".", "3">>) }

RawSigns ==
  { None, Some(""), Some("0"), Some("1"), Some("2"), Some("3"), Some("4"),
    Some("5"), Some("6") }

NotRun == [done |-> FALSE, value |-> None]

InitSign ==
  /\ prdy_vrss \in RawValues
  /\ prdy_vrss_sign \in RawSigns
  /\ change = NotRun
  /\ ws_change = NotRun

IdleSign ==
  /\ prdy_vrss = None /\ prdy_vrss_sign = None
  /\ change = NotRun /\ ws_change = NotRun

\* transform_overview computes the change field of the REST answer
SignApply ==
  /\ UNCHANGED notSign
  /\ ~change.done
  /\ change' = [done |-> TRUE, value |-> ApplySign(prdy_vrss, prdy_vrss_sign)]
  /\ UNCHANGED <<prdy_vrss, prdy_vrss_sign, ws_change>>

\* _parse_data_row computes the change field of a streamed tick
SignToSigned ==
  /\ UNCHANGED notSign
  /\ ~ws_change.done
  /\ ws_change' = [done |-> TRUE, value |-> ToSigned(prdy_vrss, prdy_vrss_sign)]
  /\ UNCHANGED <<prdy_vrss, prdy_vrss_sign, change>>

NextSign ==
  \/ SignApply
  \/ SignToSigned

----------------------------------------------------------------------------
(***************************************************************************)
(*                 _resample_points  (transformers.py)                     *)
(***************************************************************************)

\* line 119: milliseconds in a minute (60 * 1000)
MsPerMinute == 60000

\* longest list of points given to one call
MaxPoints == 3

\* the minutes the timestamps of the points fall on, and one half minute
PointTimes == {0, MsPerMinute, 4 * MsPerMinute, 5 * MsPerMinute, 5 * MsPerMinute + 30000}

\* the prices and volume a point may carry
PointShapes ==
  { [o |-> 1, h |-> 10, l |-> 1, c |-> 2, v |-> 100],
    [o |-> 3, h |-> 5, l |-> 0, c |-> 4, v |-> 50] }

Points == {[t |-> t, o |-> s.o, h |-> s.h, l |-> s.l, c |-> s.c, v |-> s.v] :
             t \in PointTimes, s \in PointShapes}

\* five consecutive 1-minute points of one 5-minute window, latest first
FiveMinutePoints ==
  [i \in 1..5 |-> [t |-> (10 - i) * MsPerMinute, o |-> 6 - i, h |-> 10, l |-> 1,
                   c |-> 6 - i, v |-> 100]]

\* the lists a caller may pass
PointLists ==
  UNION {[1..n -> Points] : n \in 0..MaxPoints} \cup {FiveMinutePoints}

Intervals == {2, 5}

Min(a, b) == IF a <= b THEN a ELSE b

\* line 124 without the truncation
BucketTsUntruncated(t, interval_ms) == t

\* line 124: the timestamp truncated to a multiple of the interval
BucketTs(t, interval_ms) == t - (t % interval_ms)

\* sorted(points, key=lambda p: p["t"]) is stable: a point goes behind the
\* points already placed whose t is not greater
RECURSIVE InsertByT(_, _)
InsertByT(sorted, p) ==
  IF sorted = <<>> THEN <<p>>
  ELSE IF Head(sorted).t <= p.t THEN <<Head(sorted)>> \o InsertByT(Tail(sorted), p)
  ELSE <<p>> \o sorted

RECURSIVE SortedByT(_, _)
SortedByT(points, acc) ==
  IF points = <<>> THEN acc
  ELSE SortedByT(Tail(points), InsertByT(acc, Head(points)))

\* lines 123-139: the loop over the sorted points; the current bucket is the
\* last one of buckets
RECURSIVE ResampleLoop(_, _, _)
ResampleLoop(sorted_points, interval_ms, buckets) ==
  IF sorted_points = <<>> THEN buckets
  ELSE LET p == Head(sorted_points)
           bucket_ts == BucketTs(p.t, interval_ms)
           n == Len(buckets)
       IN IF n = 0 \/ buckets[n].t # bucket_ts
            THEN ResampleLoop(Tail(sorted_points), interval_ms,
                   Append(buckets, [t |-> bucket_ts, o |-> p.o, h |-> p.h,
                                    l |-> p.l, c |-> p.c, v |-> p.v]))
            ELSE ResampleLoop(Tail(sorted_points), interval_ms,
                   [buckets EXCEPT ![n] =
                      [t |-> buckets[n].t, o |-> buckets[n].o,
                       h |-> Max(buckets[n].h, p.h), l |-> Min(buckets[n].l, p.l),
                       c |-> p.c, v |-> buckets[n].v + p.v]])

\* _resample_points
ResamplePoints(points, minutes) ==
  ResampleLoop(SortedByT(points, <<>>), minutes * MsPerMinute, <<>>)

InitResample ==
  /\ raw_points \in PointLists
  /\ interval_minutes \in Intervals
  /\ resampled = [done |-> FALSE, value |-> <<>>]

IdleResample ==
  /\ raw_points = <<>> /\ interval_minutes = 5
  /\ resampled = [done |-> FALSE, value |-> <<>>]

\* transform_series_time calls _resample_points (line 187)
Resample ==
  /\ UNCHANGED notResample
  /\ ~resampled.done
  /\ resampled' = [done |-> TRUE,
                    value |-> ResamplePoints(raw_points, interval_minutes)]
  /\ UNCHANGED <<raw_points, interval_minutes>>

NextResample == Resample

----------------------------------------------------------------------------
(***************************************************************************)
(*      KISWSClient.stream_current_price, _get_approval_key (ws_client.py) *)
(***************************************************************************)
\* One stream of the module's single KISWSClient.  The clock is utcnow and
\* the credentials are kis_app_key, as for the TokenManager.

\* timedelta(hours=24), in seconds
ApprovalLifetime == 86400

\* horizon of the UTC clock of SpecStream
MaxStreamClock == 172800

\* most failures in a row the upstream is made to produce
MaxConsecutiveFailures == 16

\* line 192: the first and the longest backoff, less the attempt number
backoff_base == 5
backoff_cap == 20

\* what the approval endpoint can do to one POST (lines 102-125)
ApprovalResponses == {"network_error", "http_error", "not_json", "no_key", "ok"}

\* what the socket can deliver to "async for raw in ws" (lines 165-183)
Frames ==
  {"tick", "short_row", "system", "not_json", "pingpong", "pingpong_unsent",
   "not_text", "error", "closed"}

\* the reasons a pass through the loop body can end with an exception
FailureCauses == {"config", "approval", "connect", "send", "recv", "pong", "decode"}

LivePcs == {"start", "issuing", "connect", "send", "recv", "callback", "backoff"}

\* lines 82-84 and 87-89: the cached approval key is usable
ApprovalFresh(key, exp, now) ==
  key # None /\ exp # None /\ now < Val(exp) - Margin

\* line 192 without the cap
BackoffUncapped(retry) == backoff_base + retry

\* line 192
BackoffSeconds(retry) == Min(backoff_base + retry, backoff_cap)

\* lines 171-173 and 184: a failure of the consumer callback reaches the loop
\* as _ClientDisconnected
CallbackIsOrdinaryFailure(cause) == FALSE

IsClientDisconnected(cause) == cause = "callback"

\* line 187 if it caught transport errors only
CaughtOnlyTransport(cause) == cause \notin {"config", "approval"}

\* line 187: except Exception catches every failure cause
CaughtByLoop(cause) == TRUE

\* line 163
RetryCountAfterSubscribe(retry) == 0

InitStreamSettings ==
  /\ utcnow = 0 /\ kis_app_key \in BOOLEAN
  /\ access_token = None /\ expires_at = None /\ lock = None
  /\ tpc = [c \in Callers |-> "idle"]
  /\ tret = [c \in Callers |-> None]
  /\ terr = [c \in Callers |-> None]
  /\ issue_calls = 0
  /\ tlog = [c \in Callers |->
              [stale_at_call |-> FALSE, overlapped |-> FALSE, issued |-> FALSE,
               checked_at |-> 0, calls_at_call |-> 0, exp_issued |-> 0]]

InitStream ==
  /\ approval_key = None /\ approval_expires_at = None /\ ws_lock = None
  /\ spc = "start" /\ retry_count = 0 /\ backoff = 0
  /\ key_source = "none" /\ last_exit = "none" /\ consecutive_failures = 0

IdleStream ==
  /\ approval_key = None /\ approval_expires_at = None /\ ws_lock = None
  /\ spc = "off" /\ retry_count = 0 /\ backoff = 0
  /\ key_source = "none" /\ last_exit = "none" /\ consecutive_failures = 0

\* lines 184-195: an exception of the given cause leaves the try block; the
\* lock is released if _get_approval_key held it
StreamFailure(cause) ==
  /\ last_exit' = cause
  /\ ws_lock' = None
  /\ UNCHANGED <<approval_key, key_source>>
  /\ IF IsClientDisconnected(cause)
       THEN /\ spc' = "returned"
            /\ UNCHANGED <<approval_expires_at, retry_count, backoff,
                           consecutive_failures>>
     ELSE IF ~CaughtByLoop(cause)
       THEN /\ spc' = "raised"
            /\ UNCHANGED <<approval_expires_at, retry_count, backoff,
                           consecutive_failures>>
     ELSE /\ retry_count < MaxConsecutiveFailures
          /\ retry_count' = retry_count + 1
          /\ approval_expires_at' = None
          /\ backoff' = BackoffSeconds(retry_count + 1)
          /\ consecutive_failures' = consecutive_failures + 1
          /\ spc' = "backoff"

\* lines 142 and 82-84: the cached key is returned
StreamKeyCached ==
  /\ UNCHANGED notStream
  /\ spc = "start"
  /\ ApprovalFresh(approval_key, approval_expires_at, utcnow)
  /\ key_source' = "cache"
  /\ spc' = "connect"
  /\ UNCHANGED <<utcnow, kis_app_key, approval_key, approval_expires_at, ws_lock,
                 retry_count, backoff, last_exit, consecutive_failures>>

\* lines 86-92: no usable key and no credentials
StreamKeyUnconfigured ==
  /\ UNCHANGED notStream
  /\ spc = "start"
  /\ ~ApprovalFresh(approval_key, approval_expires_at, utcnow)
  /\ ws_lock = None
  /\ ~kis_app_key
  /\ StreamFailure("config")
  /\ UNCHANGED <<utcnow, kis_app_key>>

\* lines 86-108: no usable key; the lock is taken and the POST is sent
StreamKeyRequest ==
  /\ UNCHANGED notStream
  /\ spc = "start"
  /\ ~ApprovalFresh(approval_key, approval_expires_at, utcnow)
  /\ ws_lock = None
  /\ kis_app_key
  /\ ws_lock' = Some("stream")
  /\ spc' = "issuing"
  /\ UNCHANGED <<utcnow, kis_app_key, approval_key, approval_expires_at,
                 retry_count, backoff, key_source, last_exit, consecutive_failures>>

\* lines 109-130: the answer of the approval endpoint
StreamApprovalResponse(resp) ==
  /\ UNCHANGED notStream
  /\ spc = "issuing"
  /\ IF resp = "ok"
       THEN /\ approval_key' = Some(1)
            /\ approval_expires_at' = Some(utcnow + ApprovalLifetime)
            /\ ws_lock' = None
            /\ key_source' = "issued"
            /\ spc' = "connect"
            /\ UNCHANGED <<retry_count, backoff, last_exit, consecutive_failures>>
       ELSE StreamFailure("approval")
  /\ UNCHANGED <<utcnow, kis_app_key>>

\* line 159: websockets.connect
StreamConnect(ok) ==
  /\ UNCHANGED notStream
  /\ spc = "connect"
  /\ IF ok
       THEN /\ spc' = "send"
            /\ UNCHANGED <<approval_key, approval_expires_at, ws_lock, retry_count,
                           backoff, key_source, last_exit, consecutive_failures>>
       ELSE StreamFailure("connect")
  /\ UNCHANGED <<utcnow, kis_app_key>>

\* lines 161-163: the subscribe message is sent
StreamSubscribe(ok) ==
  /\ UNCHANGED notStream
  /\ spc = "send"
  /\ IF ok
       THEN /\ retry_count' = RetryCountAfterSubscribe(retry_count)
            /\ consecutive_failures' = 0
            /\ spc' = "recv"
            /\ UNCHANGED <<approval_key, approval_expires_at, ws_lock, backoff,
                           key_source, last_exit>>
       ELSE StreamFailure("send")
  /\ UNCHANGED <<utcnow, kis_app_key>>

\* lines 165-183: one frame, or the end of the connection
StreamReceive(frame) ==
  /\ UNCHANGED notStream
  /\ spc = "recv"
  /\ CASE frame = "tick" ->
            /\ spc' = "callback"
            /\ UNCHANGED <<approval_key, approval_expires_at, ws_lock, retry_count,
                           backoff, key_source, last_exit, consecutive_failures>>
       [] frame \in {"short_row", "system", "not_json", "pingpong"} ->
            UNCHANGED streamVars
       [] frame = "pingpong_unsent" -> StreamFailure("pong")
       [] frame = "not_text" -> StreamFailure("decode")
       [] frame = "error" -> StreamFailure("recv")
       [] frame = "closed" ->
            /\ spc' = "start"
            /\ last_exit' = "closed"
            /\ UNCHANGED <<approval_key, approval_expires_at, ws_lock, retry_count,
                           backoff, key_source, consecutive_failures>>
  /\ UNCHANGED <<utcnow, kis_app_key>>

\* lines 169-174: on_message(payload)
StreamCallback(ok) ==
  /\ UNCHANGED notStream
  /\ spc = "callback"
  /\ IF ok
       THEN /\ spc' = "recv"
            /\ UNCHANGED <<approval_key, approval_expires_at, ws_lock, retry_count,
                           backoff, key_source, last_exit, consecutive_failures>>
       ELSE StreamFailure("callback")
  /\ UNCHANGED <<utcnow, kis_app_key>>

\* lines 194-195: the sleep is over
StreamBackoffDone ==
  /\ UNCHANGED notStream
  /\ spc = "backoff"
  /\ spc' = "start"
  /\ UNCHANGED <<utcnow, kis_app_key, approval_key, approval_expires_at, ws_lock,
                 retry_count, backoff, key_source, last_exit, consecutive_failures>>

\* the caller cancels the task: CancelledError is not an Exception, so it
\* leaves the loop from whatever await the task is suspended in
StreamCancel ==
  /\ UNCHANGED notStream
  /\ spc \in LivePcs
  /\ spc' = "cancelled"
  /\ ws_lock' = None
  /\ UNCHANGED <<utcnow, kis_app_key, approval_key, approval_expires_at,
                 retry_count, backoff, key_source, last_exit, consecutive_failures>>

\* time passes until the cached key is within the margin of its expiry
StreamKeyAges ==
  /\ UNCHANGED notStream
  /\ spc \in LivePcs
  /\ approval_expires_at # None
  /\ utcnow < Val(approval_expires_at) - Margin
  /\ Val(approval_expires_at) - Margin <= MaxStreamClock
  /\ utcnow' = Val(approval_expires_at) - Margin
  /\ UNCHANGED <<kis_app_key, streamVars>>

NextStream ==
  \/ StreamKeyCached
  \/ StreamKeyUnconfigured
  \/ StreamKeyRequest
  \/ \E resp \in ApprovalResponses : StreamApprovalResponse(resp)
  \/ \E ok \in BOOLEAN : StreamConnect(ok)
  \/ \E ok \in BOOLEAN : StreamSubscribe(ok)
  \/ \E frame \in Frames : StreamReceive(frame)
  \/ \E ok \in BOOLEAN : StreamCallback(ok)
  \/ StreamBackoffDone
  \/ StreamCancel
  \/ StreamKeyAges

----------------------------------------------------------------------------
(***************************************************************************)
(*        the /ws/current handler: stream_current_price  (stocks.py)       *)
(***************************************************************************)
\* The handler creates two tasks: the stream task, which runs
\* KISWSClient.stream_current_price (modelled above, spc = "off" until it is
\* created), and the disconnect watcher.

StreamFinished == spc \in {"returned", "cancelled", "raised"}

DisconnectFinished == disconnect_task \in {"returned", "cancelled"}

\* the tasks that are finished
FinishedTasks ==
  (IF StreamFinished THEN {"stream"} ELSE {})
    \cup (IF DisconnectFinished THEN {"disconnect"} ELSE {})

\* line 671 if it asked for the stream task first
StreamFirst(done) == "stream" \notin done

\* line 671: if disconnect_task in done
DisconnectFirst(done) == "disconnect" \in done

InitHandler ==
  /\ code_valid \in BOOLEAN
  /\ hpc = "start"
  /\ disconnect_task = "none"
  /\ wait_done = {}
  /\ stream_cancel_called = FALSE

IdleHandler ==
  /\ code_valid = TRUE /\ hpc = "off" /\ disconnect_task = "none"
  /\ wait_done = {} /\ stream_cancel_called = FALSE

\* lines 647-649: the code is rejected before accept
HandlerReject ==
  /\ UNCHANGED notHandler
  /\ hpc = "start" /\ ~code_valid
  /\ hpc' = "returned"
  /\ UNCHANGED <<utcnow, kis_app_key, ws_lock, spc, code_valid, disconnect_task,
                 wait_done, stream_cancel_called>>

\* lines 651-666: accept, create both tasks, wait for the first to finish
HandlerAccept ==
  /\ UNCHANGED notHandler
  /\ hpc = "start" /\ code_valid
  /\ spc' = "start"
  /\ disconnect_task' = "running"
  /\ hpc' = "wait"
  /\ UNCHANGED <<utcnow, kis_app_key, ws_lock, code_valid, wait_done,
                 stream_cancel_called>>

\* lines 656-661: the consumer disconnects; websocket.receive raises
DisconnectDetected ==
  /\ UNCHANGED notHandler
  /\ disconnect_task = "running"
  /\ disconnect_task' = "returned"
  /\ UNCHANGED <<utcnow, kis_app_key, ws_lock, spc, code_valid, hpc, wait_done,
                 stream_cancel_called>>

\* lines 666-680: asyncio.wait returns the tasks finished by now; the branch
\* is chosen and the other task is cancelled
HandlerWake ==
  /\ UNCHANGED notHandler
  /\ hpc = "wait"
  /\ FinishedTasks # {}
  /\ wait_done' = FinishedTasks
  /\ IF DisconnectFirst(FinishedTasks)
       THEN /\ stream_cancel_called' = TRUE
            /\ spc' = IF StreamFinished THEN spc ELSE "cancelling"
            /\ hpc' = IF StreamFinished THEN "returned" ELSE "await_stream"
            /\ UNCHANGED disconnect_task
       ELSE /\ disconnect_task' =
                 IF DisconnectFinished THEN disconnect_task ELSE "cancelling"
            /\ hpc' = "await_disconnect"
            /\ UNCHANGED <<spc, stream_cancel_called>>
  /\ UNCHANGED <<utcnow, kis_app_key, ws_lock, code_valid>>

\* CancelledError is thrown into the stream task at the await it is
\* suspended in and leaves stream_current_price (it is not an Exception)
StreamCancelDelivered ==
  /\ UNCHANGED notHandler
  /\ spc = "cancelling"
  /\ spc' = "cancelled"
  /\ ws_lock' = None
  /\ UNCHANGED <<utcnow, kis_app_key, handlerVars>>

\* CancelledError is thrown into _wait_disconnect, which does not catch it
DisconnectCancelled ==
  /\ UNCHANGED notHandler
  /\ disconnect_task = "cancelling"
  /\ disconnect_task' = "cancelled"
  /\ UNCHANGED <<utcnow, kis_app_key, ws_lock, spc, code_valid, hpc, wait_done,
                 stream_cancel_called>>

\* lines 673-675: await stream_task is over
HandlerAfterStream ==
  /\ UNCHANGED notHandler
  /\ hpc = "await_stream" /\ StreamFinished
  /\ hpc' = "returned"
  /\ UNCHANGED <<utcnow, kis_app_key, ws_lock, spc, code_valid, disconnect_task,
                 wait_done, stream_cancel_called>>

\* lines 679-693: await disconnect_task is over; the stream task, which had
\* finished before, is awaited
HandlerAfterDisconnect ==
  /\ UNCHANGED notHandler
  /\ hpc = "await_disconnect" /\ DisconnectFinished
  /\ hpc' = "returned"
  /\ UNCHANGED <<utcnow, kis_app_key, ws_lock, spc, code_valid, disconnect_task,
                 wait_done, stream_cancel_called>>

NextWsHandler ==
  \/ HandlerReject
  \/ HandlerAccept
  \/ DisconnectDetected
  \/ HandlerWake
  \/ StreamCancelDelivered
  \/ DisconnectCancelled
  \/ HandlerAfterStream
  \/ HandlerAfterDisconnect
  \/ StreamKeyCached
  \/ StreamKeyUnconfigured
  \/ StreamKeyRequest
  \/ \E resp \in ApprovalResponses : StreamApprovalResponse(resp)
  \/ \E ok \in BOOLEAN : StreamConnect(ok)
  \/ \E ok \in BOOLEAN : StreamSubscribe(ok)
  \/ \E frame \in Frames : StreamReceive(frame)
  \/ \E ok \in BOOLEAN : StreamCallback(ok)
  \/ StreamBackoffDone
  \/ StreamKeyAges

----------------------------------------------------------------------------
(***************************************************************************)
(*   get_stock_overview, get_stock_series, _resolve_series_bypass_cache    *)
(*   (stocks.py): the cache protocol of the REST handlers                  *)
(***************************************************************************)
\* Requests of one instrument code.  The series requests are those of range
\* 1d (the 1w/1m branch follows the same protocol with its own key and ttl).
\* The upstream work of a request is one step that succeeds or fails.  A
\* handler runs without suspension from its entry to its first upstream call:
\* the cache's lock is never held across an await, so it is always free.

\* the ttl_seconds of the overview and series responses (3 s and 15 s) and
\* the bypass cooldown (30 s by default), scaled to the model's clock
overview_ttl_seconds == 1
series_ttl_seconds == 2
bypass_cooldown_seconds == 3

\* horizon of the monotonic clock of SpecRouter
MaxRouterClock == 3

Slots == {"q1", "q2"}
\* the client identities of _series_bypass_client_id
Clients == {"user:u1"}

\* settings.series_cache_bypass_cooldown_seconds: switched off or on
Cooldowns == {0, bypass_cooldown_seconds}

OverviewKey == <<"overview", "code">>
SeriesKey == <<"series", "code", "1d">>
BypassKey(client) == <<"bypass", client, "code", "1d">>

\* TTLCache.get as a function: the value returned and the cache after it
CacheGetOutcome(st, next, now, k) ==
  LET swept == CleanupExpiredLocked(st, next, now)
      entry == Lookup(swept[1], k)
      expired == entry # None /\ GetExpired(Val(entry).expires_at, now)
  IN [result |-> IF entry = None \/ expired THEN None ELSE Some(Val(entry).value),
      store |-> IF expired THEN Pop(swept[1], k) ELSE swept[1],
      next |-> swept[2]]

\* TTLCache.set as a function: the cache after it
CacheSetOutcome(st, next, now, k, v, ttl) ==
  IF TtlIgnored(ttl) THEN [store |-> st, next |-> next]
  ELSE LET assigned == Assign(st, [key |-> k, expires_at |-> now + ttl, value |-> v])
           swept == CleanupExpiredLocked(assigned, next, now)
       IN [store |-> swept[1], next |-> swept[2]]

\* line 189 if the cooldown entry were not looked at
NeverThrottled(last_honored_at) == FALSE

\* line 189: if last_honored_at is not None
BypassThrottled(last_honored_at) == last_honored_at # None

\* a handler that returned what it built without a cache.set
NeverStores(kind, bypass_cache) == FALSE

\* line 732: the overview is always stored; lines 902 and 953: a series
\* response is stored `if not bypass_cache`
StoresResponse(kind, bypass_cache) == kind = "overview" \/ ~bypass_cache

\* the ttl_seconds a response is stored with
ResponseTtl(kind) ==
  IF kind = "overview" THEN overview_ttl_seconds ELSE series_ttl_seconds

ResponseKey(kind) == IF kind = "overview" THEN OverviewKey ELSE SeriesKey

\* _resolve_series_bypass_cache: the decision and the cache after it
ResolveSeriesBypassCache(st, next, now, client, bypass_requested) ==
  IF ~bypass_requested THEN [bypass |-> FALSE, store |-> st, next |-> next]
  ELSE IF Max(cooldown_seconds, 0) <= 0
    THEN [bypass |-> TRUE, store |-> st, next |-> next]
  ELSE LET got == CacheGetOutcome(st, next, now, BypassKey(client)) IN
         IF BypassThrottled(got.result)
           THEN [bypass |-> FALSE, store |-> got.store, next |-> got.next]
           ELSE LET put == CacheSetOutcome(got.store, got.next, now, BypassKey(client),
                                           [at |-> now],
                                           Max(cooldown_seconds, 0))
                IN [bypass |-> TRUE, store |-> put.store, next |-> put.next]

NoRequest ==
  [pc |-> "idle", kind |-> "none", client |-> "none", bypass_requested |-> FALSE,
   bypass_cache |-> FALSE]

NoResponse ==
  [kind |-> "none", outcome |-> "none", bypass_requested |-> FALSE,
   bypass_cache |-> FALSE, value |-> None]

\* the record of a request that has just been answered
Answered(r, how, value) ==
  [kind |-> r.kind, outcome |-> how, bypass_requested |-> r.bypass_requested,
   bypass_cache |-> r.bypass_cache, value |-> value]

InitRouter ==
  /\ cooldown_seconds \in Cooldowns
  /\ rq = [q \in Slots |-> NoRequest]
  /\ last_honored = [c \in Clients |-> None]
  /\ last_response = NoResponse

IdleRouter ==
  /\ cooldown_seconds = 0
  /\ rq = [q \in Slots |-> NoRequest]
  /\ last_honored = [c \in Clients |-> None]
  /\ last_response = NoResponse

\* lines 703-717: an overview request up to its upstream call
RouterOverviewArrive(q) ==
  /\ UNCHANGED notRouter
  /\ rq[q].pc = "idle"
  /\ LET got == CacheGetOutcome(store, next_cleanup_at, monotonic, OverviewKey)
         hit == got.result # None
         r == [pc |-> "fetching", kind |-> "overview", client |-> "none",
               bypass_requested |-> FALSE, bypass_cache |-> FALSE]
     IN /\ store' = got.store
        /\ next_cleanup_at' = got.next
        /\ IF hit
             THEN /\ last_response' = Answered(r, "cached", got.result)
                  /\ UNCHANGED rq
             ELSE /\ rq' = [rq EXCEPT ![q] = r]
                  /\ UNCHANGED last_response
  /\ UNCHANGED <<monotonic, cooldown_seconds, last_honored>>

\* lines 747-766: a series request up to its first upstream call
RouterSeriesArrive(q, client, bypass_requested) ==
  /\ UNCHANGED notRouter
  /\ rq[q].pc = "idle"
  /\ LET resolved == ResolveSeriesBypassCache(store, next_cleanup_at, monotonic,
                                              client, bypass_requested)
         got == CacheGetOutcome(resolved.store, resolved.next, monotonic, SeriesKey)
         hit == ~resolved.bypass /\ got.result # None
         r == [pc |-> "fetching", kind |-> "series", client |-> client,
               bypass_requested |-> bypass_requested,
               bypass_cache |-> resolved.bypass]
     IN /\ store' = IF resolved.bypass THEN resolved.store ELSE got.store
        /\ next_cleanup_at' = IF resolved.bypass THEN resolved.next ELSE got.next
        /\ IF hit
             THEN /\ last_response' = Answered(r, "cached", got.result)
                  /\ UNCHANGED rq
             ELSE /\ rq' = [rq EXCEPT ![q] = r]
                  /\ UNCHANGED last_response
        /\ last_honored' =
             IF resolved.bypass
               THEN [last_honored EXCEPT ![client] = Some(monotonic)]
               ELSE last_honored
  /\ UNCHANGED <<monotonic, cooldown_seconds>>

\* lines 718-733 and 766-904: the upstream work went well; the response is
\* built, stored unless the cache was bypassed, and returned
RouterRespond(q) ==
  /\ UNCHANGED notRouter
  /\ rq[q].pc = "fetching"
  /\ LET response == [at |-> monotonic]
         put == CacheSetOutcome(store, next_cleanup_at, monotonic,
                                ResponseKey(rq[q].kind), response,
                                ResponseTtl(rq[q].kind))
         stores == StoresResponse(rq[q].kind, rq[q].bypass_cache)
     IN /\ store' = IF stores THEN put.store ELSE store
        /\ next_cleanup_at' = IF stores THEN put.next ELSE next_cleanup_at
        /\ last_response' = Answered(rq[q], "built", Some(response))
        /\ rq' = [rq EXCEPT ![q] = NoRequest]
  /\ UNCHANGED <<monotonic, cooldown_seconds, last_honored>>

\* lines 734-735, 905-906 and 956-957 if what was built so far were stored
StoresOnErrorAnyway(kind) == TRUE

\* lines 734-735, 905-906 and 956-957: cache.set comes after the last
\* upstream call of the try block, so the except clause is reached with
\* nothing stored, and it stores nothing
StoresOnError(kind) == FALSE

\* lines 734-735, 905-906 and 956-957: the upstream work ended in a KISError
RouterFail(q) ==
  /\ UNCHANGED notRouter
  /\ rq[q].pc = "fetching"
  /\ LET put == CacheSetOutcome(store, next_cleanup_at, monotonic,
                                ResponseKey(rq[q].kind), [at |-> monotonic],
                                ResponseTtl(rq[q].kind))
         stores == StoresOnError(rq[q].kind)
     IN /\ store' = IF stores THEN put.store ELSE store
        /\ next_cleanup_at' = IF stores THEN put.next ELSE next_cleanup_at
  /\ last_response' = Answered(rq[q], "error", None)
  /\ rq' = [rq EXCEPT ![q] = NoRequest]
  /\ UNCHANGED <<monotonic, cooldown_seconds, last_honored>>

RouterTick ==
  /\ UNCHANGED notRouter
  /\ monotonic < MaxRouterClock
  /\ monotonic' = monotonic + 1
  /\ UNCHANGED <<store, next_cleanup_at, cooldown_seconds, rq, last_honored,
                 last_response>>

NextRouter ==
  \/ \E q \in Slots : RouterOverviewArrive(q)
  \/ \E q \in Slots : \E c \in Clients : \E b \in BOOLEAN : RouterSeriesArrive(q, c, b)
  \/ \E q \in Slots : RouterRespond(q)
  \/ \E q \in Slots : RouterFail(q)
  \/ RouterTick

----------------------------------------------------------------------------
(***************************************************************************)
(*     get_stock_series, range 1d: the extended-hours sources              *)
(*     (routers/stocks.py)                                                 *)
(***************************************************************************)

\* the three optional sources, by the names the handler logs them under
Sources == {"overtime_time", "overtime_daily", "overtime_price"}

\* datetime.now(tz=KST).strftime("%Y%m%d") during the request
Today == 20250102

\* eight digits that are no day of the calendar
ImpossibleDate == 20250230

\* timestamps are counted from 00:00 KST on 1 January of this year
EpochYear == 2025

MsPerDay == 86400000

\* a date text of eight digits is held as the number it spells
YearOf(d) == d \div 10000
MonthOf(d) == (d \div 100) % 100
DayOf(d) == d % 100

IsLeap(y) == (y % 4 = 0 /\ y % 100 # 0) \/ y % 400 = 0

DaysInMonth(y, m) ==
  IF m = 2 THEN (IF IsLeap(y) THEN 29 ELSE 28)
  ELSE IF m \in {4, 6, 9, 11} THEN 30 ELSE 31

\* datetime.strptime(text, "%Y%m%d...") accepts the date
IsCalendarDate(d) ==
  /\ YearOf(d) >= 1
  /\ MonthOf(d) \in 1..12
  /\ DayOf(d) \in 1..DaysInMonth(YearOf(d), MonthOf(d))

\* a time text HHMMSS is held as the number it spells
IsClockTime(t) ==
  /\ t \div 10000 \in 0..23
  /\ (t \div 100) % 100 \in 0..59
  /\ t % 100 \in 0..59

SecondsOf(t) ==
  (t \div 10000) * 3600 + ((t \div 100) % 100) * 60 + (t % 100)

RECURSIVE DaysBeforeMonth(_, _)
DaysBeforeMonth(y, m) ==
  IF m <= 1 THEN 0 ELSE DaysBeforeMonth(y, m - 1) + DaysInMonth(y, m - 1)

\* _to_epoch_ms: None when strptime rejects the text
ToEpochMs(d, t) ==
  IF ~IsCalendarDate(d) \/ ~IsClockTime(t) \/ YearOf(d) # EpochYear THEN None
  ELSE Some((DaysBeforeMonth(YearOf(d), MonthOf(d)) + DayOf(d) - 1) * MsPerDay
            + SecondsOf(t) * 1000)

\* _normalize_yyyymmdd: a value of eight digits is kept whatever it spells
NormalizeYyyymmdd(value) == value

\* the row the anchor and fill builders make (lines 478-486, 503-511, 560-568)
OvertimeRow(date, time, price, volume) ==
  [stck_bsop_date |-> date, stck_cntg_hour |-> time, stck_oprc |-> price,
   stck_hgpr |-> price, stck_lwpr |-> price, stck_prpr |-> price,
   cntg_vol |-> volume]

\* _series_row_key of a row whose date and time are well-formed texts, held
\* as the numbers they spell
NormalizedRowKey(row) == <<row.stck_bsop_date, row.stck_cntg_hour>>

\* the order of tuple[str, str] keys
KeyLess(a, b) == a[1] < b[1] \/ (a[1] = b[1] /\ a[2] < b[2])

\* _normalize_overtime_rows: a row without a date gets today's, a row without
\* a positive price is dropped
RECURSIVE NormalizeOvertimeRows(_)
NormalizeOvertimeRows(rows) ==
  IF rows = <<>> THEN <<>>
  ELSE LET row == Head(rows)
           date_text == IF row.stck_bsop_date = None THEN Today
                        ELSE NormalizeYyyymmdd(Val(row.stck_bsop_date))
       IN IF row.stck_prpr <= 0 THEN NormalizeOvertimeRows(Tail(rows))
          ELSE <<OvertimeRow(date_text, row.stck_cntg_hour, row.stck_prpr,
                             Max(row.cntg_vol, 0))>>
               \o NormalizeOvertimeRows(Tail(rows))

\* lines 455-465: the first row of the latest date
LatestDailyIndex(output2) ==
  CHOOSE i \in 1..Len(output2) :
    /\ \A j \in 1..Len(output2) : output2[j].stck_bsop_date <= output2[i].stck_bsop_date
    /\ \A j \in 1..(i - 1) : output2[j].stck_bsop_date < output2[i].stck_bsop_date

\* _build_daily_overtime_anchor_rows
BuildDailyOvertimeAnchorRows(output2) ==
  IF output2 = <<>> THEN <<>>
  ELSE LET latest_row == output2[LatestDailyIndex(output2)]
       IN IF latest_row.ovtm_untp_prpr <= 0 THEN <<>>
          ELSE <<OvertimeRow(NormalizeYyyymmdd(latest_row.stck_bsop_date), 180000,
                             latest_row.ovtm_untp_prpr,
                             Max(latest_row.ovtm_untp_vol, 0))>>

\* _build_overtime_price_anchor_row: Optional row, dated today
BuildOvertimePriceAnchorRow(output) ==
  IF output = None THEN None
  ELSE IF Val(output).ovtm_untp_prpr <= 0 THEN None
  ELSE Some(OvertimeRow(Today, 180000, Val(output).ovtm_untp_prpr,
                        Max(Val(output).ovtm_untp_vol, 0)))

\* lines 536-549: the regular row of the greatest key, the first of them
LatestRegularIndex(rows) ==
  CHOOSE i \in 1..Len(rows) :
    /\ \A j \in 1..Len(rows) : ~KeyLess(NormalizedRowKey(rows[i]), NormalizedRowKey(rows[j]))
    /\ \A j \in 1..(i - 1) : KeyLess(NormalizedRowKey(rows[j]), NormalizedRowKey(rows[i]))

\* lines 523-552: Optional <<anchor_date, anchor_price>>; the price row is
\* asked first, then the last daily row, then the latest regular row
FillAnchor(rows, overtime_daily_rows, overtime_price_row) ==
  IF overtime_price_row # None /\ Val(overtime_price_row).stck_prpr > 0
    THEN Some(<<Val(overtime_price_row).stck_bsop_date,
                Val(overtime_price_row).stck_prpr>>)
  ELSE IF overtime_daily_rows # <<>>
          /\ overtime_daily_rows[Len(overtime_daily_rows)].stck_prpr > 0
    THEN Some(<<overtime_daily_rows[Len(overtime_daily_rows)].stck_bsop_date,
                overtime_daily_rows[Len(overtime_daily_rows)].stck_prpr>>)
  ELSE IF rows # <<>> /\ rows[LatestRegularIndex(rows)].stck_prpr > 0
    THEN Some(<<rows[LatestRegularIndex(rows)].stck_bsop_date,
                rows[LatestRegularIndex(rows)].stck_prpr>>)
  ELSE None

\* lines 554-555: the fill runs from 15:35:00 to 18:00:00, in minutes of the day
FillStartMinute == 935
FillEndMinute == 1080

\* line 570: cursor_dt += timedelta(minutes=5)
FillStepMinutes == 5

\* strftime("%H%M%S") of a minute of the day
HhmmssOfMinute(m) == (m \div 60) * 10000 + (m % 60) * 100

\* lines 556-570: while cursor_dt <= end_dt
RECURSIVE FillLoop(_, _, _)
FillLoop(cursor_minute, anchor_date, anchor_price) ==
  IF cursor_minute > FillEndMinute THEN <<>>
  ELSE <<OvertimeRow(anchor_date, HhmmssOfMinute(cursor_minute), anchor_price, 0)>>
       \o FillLoop(cursor_minute + FillStepMinutes, anchor_date, anchor_price)

\* the unguarded strptime of lines 554-555 raises ValueError when the anchor
\* date is no day of the calendar
StrptimeRaises(anchor_date) == ~IsCalendarDate(anchor_date)

\* _build_overtime_fill_rows: the rows, or the ValueError raised
BuildOvertimeFillRows(rows, overtime_daily_rows, overtime_price_row) ==
  LET anchor == FillAnchor(rows, overtime_daily_rows, overtime_price_row)
  IN IF anchor = None THEN [raised |-> FALSE, rows |-> <<>>]
     ELSE IF StrptimeRaises(Val(anchor)[1]) THEN [raised |-> TRUE, rows |-> <<>>]
     ELSE [raised |-> FALSE,
           rows |-> FillLoop(FillStartMinute, Val(anchor)[1], Val(anchor)[2])]

\* lines 585-594: the regular row kept under key k is the last one with it
RegularUnder(rows, k) ==
  rows[CHOOSE i \in 1..Len(rows) :
         /\ NormalizedRowKey(rows[i]) = k
         /\ \A j \in (i + 1)..Len(rows) : NormalizedRowKey(rows[j]) # k]

\* lines 596-605: the overtime row kept under key k is the first one with it
OvertimeUnder(rows, k) ==
  rows[CHOOSE i \in 1..Len(rows) :
         /\ NormalizedRowKey(rows[i]) = k
         /\ \A j \in 1..(i - 1) : NormalizedRowKey(rows[j]) # k]

\* sorted(merged_by_key.keys())
RECURSIVE SortedKeys(_)
SortedKeys(keys) ==
  IF keys = {} THEN <<>>
  ELSE LET least == CHOOSE k \in keys : \A other \in keys : ~KeyLess(other, k)
       IN <<least>> \o SortedKeys(keys \ {least})

\* _merge_series_rows with the overtime rows merged first
MergeOvertimeFirst(rows, overtime_rows) ==
  LET regular_keys == {NormalizedRowKey(rows[i]) : i \in 1..Len(rows)}
      overtime_keys == {NormalizedRowKey(overtime_rows[i]) : i \in 1..Len(overtime_rows)}
      keys == SortedKeys(regular_keys \cup overtime_keys)
  IN [i \in 1..Len(keys) |->
        IF keys[i] \in overtime_keys THEN OvertimeUnder(overtime_rows, keys[i])
        ELSE RegularUnder(rows, keys[i])]

\* _merge_series_rows: a regular row wins over an overtime row of its key
MergeSeriesRows(rows, overtime_rows) ==
  LET regular_keys == {NormalizedRowKey(rows[i]) : i \in 1..Len(rows)}
      overtime_keys == {NormalizedRowKey(overtime_rows[i]) : i \in 1..Len(overtime_rows)}
      keys == SortedKeys(regular_keys \cup overtime_keys)
  IN [i \in 1..Len(keys) |->
        IF keys[i] \in regular_keys THEN RegularUnder(rows, keys[i])
        ELSE OvertimeUnder(overtime_rows, keys[i])]

\* transform_series_time, lines 173-185: a row whose date and time make no
\* timestamp is left out
RECURSIVE RawPointsOf(_)
RawPointsOf(rows) ==
  IF rows = <<>> THEN <<>>
  ELSE LET row == Head(rows)
           t == ToEpochMs(row.stck_bsop_date, row.stck_cntg_hour)
       IN IF t = None THEN RawPointsOf(Tail(rows))
          ELSE <<[t |-> Val(t), o |-> row.stck_oprc, h |-> row.stck_hgpr,
                  l |-> row.stck_lwpr, c |-> row.stck_prpr, v |-> row.cntg_vol]>>
               \o RawPointsOf(Tail(rows))

\* transform_series_time with interval_minutes=5 (line 864): the points
TransformSeriesTime(rows) ==
  SortedByT(ResamplePoints(RawPointsOf(rows), 5), <<>>)

\* line 866
HasValidPoint(points) == \E i \in 1..Len(points) : points[i].c > 0

\* lines 819-864: the points of the response, or the ValueError raised on the
\* way; time_rows, daily_rows and price_output are the payloads received, or
\* the defaults of lines 769, 786 and 803 for a source that failed
BuildSeries(rows, time_rows, daily_rows, price_output, failed) ==
  LET overtime_time_rows == NormalizeOvertimeRows(time_rows)
      overtime_daily_rows == BuildDailyOvertimeAnchorRows(daily_rows)
      overtime_price_row == BuildOvertimePriceAnchorRow(price_output)
      fill == IF "overtime_time" \in failed
                THEN BuildOvertimeFillRows(rows, overtime_daily_rows, overtime_price_row)
                ELSE [raised |-> FALSE, rows |-> <<>>]
      overtime_rows == overtime_time_rows \o fill.rows \o overtime_daily_rows
                       \o (IF overtime_price_row = None THEN <<>>
                           ELSE <<Val(overtime_price_row)>>)
      merged == MergeSeriesRows(rows, overtime_rows)
  IN IF fill.raised
       THEN [raised |-> TRUE, points |-> <<>>, overtime |-> <<>>, merged |-> <<>>]
       ELSE [raised |-> FALSE, points |-> TransformSeriesTime(merged),
             overtime |-> overtime_rows, merged |-> merged]

\* lines 880-901: the single point the daily fallback puts in, at 15:30 of its day
FallbackPoint(latest) ==
  [t |-> latest.t - (latest.t % MsPerDay) + SecondsOf(153000) * 1000,
   o |-> IF latest.o = 0 THEN latest.c ELSE latest.o,
   h |-> IF latest.h = 0 THEN latest.c ELSE latest.h,
   l |-> IF latest.l = 0 THEN latest.c ELSE latest.l,
   c |-> latest.c, v |-> latest.v]

\* ---- what the upstream may answer
RegularRowLists ==
  { <<>>,
    <<OvertimeRow(Today, 153000, 7, 10)>>,
    <<OvertimeRow(Today, 153000, 0, 0)>> }

TimeOutputs ==
  { <<>>,
    <<[stck_bsop_date |-> None, stck_cntg_hour |-> 160000, stck_prpr |-> 8,
       cntg_vol |-> 3]>>,
    <<[stck_bsop_date |-> Some(Today), stck_cntg_hour |-> 180000, stck_prpr |-> 8,
       cntg_vol |-> 3]>>,
    <<[stck_bsop_date |-> Some(Today), stck_cntg_hour |-> 180000, stck_prpr |-> 8,
       cntg_vol |-> 3],
      [stck_bsop_date |-> Some(Today), stck_cntg_hour |-> 153000, stck_prpr |-> 4,
       cntg_vol |-> 3],
      [stck_bsop_date |-> Some(Today), stck_cntg_hour |-> 180000, stck_prpr |-> 3,
       cntg_vol |-> 3]>> }

DailyOutputs ==
  { <<>>,
    <<[stck_bsop_date |-> Today, ovtm_untp_prpr |-> 9, ovtm_untp_vol |-> 1]>>,
    <<[stck_bsop_date |-> ImpossibleDate, ovtm_untp_prpr |-> 9, ovtm_untp_vol |-> 1]>> }

PriceOutputs ==
  { [ovtm_untp_prpr |-> 0, ovtm_untp_vol |-> 0],
    [ovtm_untp_prpr |-> 6, ovtm_untp_vol |-> 2] }

LatestDailyPoints ==
  { None,
    Some([t |-> Val(ToEpochMs(Today, 0)), o |-> 5, h |-> 5, l |-> 5, c |-> 5,
          v |-> 1]) }

NoResult == [outcome |-> "none", points |-> <<>>, overtime |-> <<>>, merged |-> <<>>]

InitSources ==
  /\ series_pc = "intraday"
  /\ regular_rows = None
  /\ overtime_time_data = <<>>
  /\ overtime_daily_data = <<>>
  /\ overtime_price_data = None
  /\ failed_sources = {}
  /\ source_attempts = [s \in Sources |-> 0]
  /\ series_result = NoResult

IdleSources == InitSources

\* line 766: the intraday reconstruction returns its rows, or raises the
\* KISError that line 905 turns into the error response
SeriesIntraday(ok, rows) ==
  /\ UNCHANGED notSources
  /\ series_pc = "intraday"
  /\ IF ok
       THEN /\ regular_rows' = Some(rows)
            /\ series_pc' = "overtime_time"
            /\ UNCHANGED series_result
       ELSE /\ series_pc' = "done"
            /\ series_result' = [NoResult EXCEPT !.outcome = "KISError"]
            /\ UNCHANGED regular_rows
  /\ UNCHANGED <<overtime_time_data, overtime_daily_data, overtime_price_data,
                 failed_sources, source_attempts>>

\* lines 769-784: _fetch_time_overtime_conclusion, its KISError caught
SeriesOvertimeTime(ok, output2) ==
  /\ UNCHANGED notSources
  /\ series_pc = "overtime_time"
  /\ source_attempts' = [source_attempts EXCEPT !["overtime_time"] = @ + 1]
  /\ IF ok
       THEN overtime_time_data' = output2 /\ UNCHANGED failed_sources
       ELSE /\ failed_sources' = failed_sources \cup {"overtime_time"}
            /\ UNCHANGED overtime_time_data
  /\ series_pc' = "overtime_daily"
  /\ UNCHANGED <<regular_rows, overtime_daily_data, overtime_price_data,
                 series_result>>

\* lines 786-801: _fetch_daily_overtime_price, its KISError caught
SeriesOvertimeDaily(ok, output2) ==
  /\ UNCHANGED notSources
  /\ series_pc = "overtime_daily"
  /\ source_attempts' = [source_attempts EXCEPT !["overtime_daily"] = @ + 1]
  /\ IF ok
       THEN overtime_daily_data' = output2 /\ UNCHANGED failed_sources
       ELSE /\ failed_sources' = failed_sources \cup {"overtime_daily"}
            /\ UNCHANGED overtime_daily_data
  /\ series_pc' = "overtime_price"
  /\ UNCHANGED <<regular_rows, overtime_time_data, overtime_price_data,
                 series_result>>

\* lines 803-904: _fetch_overtime_price, its KISError caught; then, with no
\* await in between, the rows are built, merged and transformed, and the
\* response is returned unless it has no valid point
SeriesOvertimePrice(ok, output) ==
  /\ UNCHANGED notSources
  /\ series_pc = "overtime_price"
  /\ source_attempts' = [source_attempts EXCEPT !["overtime_price"] = @ + 1]
  /\ IF ok
       THEN overtime_price_data' = Some(output) /\ UNCHANGED failed_sources
       ELSE /\ failed_sources' = failed_sources \cup {"overtime_price"}
            /\ UNCHANGED overtime_price_data
  /\ LET built == BuildSeries(Val(regular_rows), overtime_time_data,
                              overtime_daily_data, overtime_price_data',
                              failed_sources')
     IN IF built.raised
          THEN /\ series_pc' = "done"
               /\ series_result' = [NoResult EXCEPT !.outcome = "ValueError"]
          ELSE IF HasValidPoint(built.points)
          THEN /\ series_pc' = "done"
               /\ series_result' = [outcome |-> "response", points |-> built.points,
                                    overtime |-> built.overtime,
                                    merged |-> built.merged]
          ELSE /\ series_pc' = "fallback"
               /\ series_result' = [outcome |-> "none", points |-> built.points,
                                    overtime |-> built.overtime,
                                    merged |-> built.merged]
  /\ UNCHANGED <<regular_rows, overtime_time_data, overtime_daily_data>>

\* lines 867-904: _fetch_latest_daily_point, its KISError caught; the
\* response is returned with the fallback point if there is one
SeriesDailyFallback(ok, latest) ==
  /\ UNCHANGED notSources
  /\ series_pc = "fallback"
  /\ series_pc' = "done"
  /\ series_result' =
       [series_result EXCEPT
          !.outcome = "response",
          !.points = IF ok /\ latest # None THEN <<FallbackPoint(Val(latest))>>
                     ELSE series_result.points]
  /\ UNCHANGED <<regular_rows, overtime_time_data, overtime_daily_data,
                 overtime_price_data, failed_sources, source_attempts>>

NextSources ==
  \/ \E ok \in BOOLEAN, rows \in RegularRowLists : SeriesIntraday(ok, rows)
  \/ \E ok \in BOOLEAN, output2 \in TimeOutputs : SeriesOvertimeTime(ok, output2)
  \/ \E ok \in BOOLEAN, output2 \in DailyOutputs : SeriesOvertimeDaily(ok, output2)
  \/ \E ok \in BOOLEAN, output \in PriceOutputs : SeriesOvertimePrice(ok, output)
  \/ \E ok \in BOOLEAN, latest \in LatestDailyPoints : SeriesDailyFallback(ok, latest)

----------------------------------------------------------------------------
----------------------------------------------------------------------------
(***************************************************************************)
(*   KISWSClient._get_approval_key shared by several streams (ws_client.py) *)
(***************************************************************************)
\* _approval_key, _approval_expires_at and _lock are class attributes (lines
\* 74-76): every stream_current_price loop of the process reads and writes
\* the same ones.  A step is what one loop does between two awaits; the
\* approval key issued by the n-th POST is n.

ApprovalStreams == {"s1", "s2", "s3"}

\* most POSTs to /oauth2/Approval in one behaviour
MaxApprovalCalls == 2

\* how a connection of a stream ends while its consumer stays: an exception
\* (line 187) or a normal close, which ends the async for of line 165
StreamEnds == {"error", "closed"}

\* lines 87-89 if the check under the lock were left out
SharedRecheckNone(key, exp, now) == FALSE

\* lines 87-89: the check repeated under the lock
SharedRecheck(key, exp, now) == ApprovalFresh(key, exp, now)

\* asyncio.Lock wakes its waiters before it lets a newcomer in
NoWaiters == \A t \in ApprovalStreams : apc[t] # "waiting"

InitSharing ==
  /\ apc = [s \in ApprovalStreams |-> "start"]
  /\ used_key = [s \in ApprovalStreams |-> None]
  /\ key_via = [s \in ApprovalStreams |-> "none"]
  /\ approval_calls = 0
  /\ invalidated_at = None

IdleSharing ==
  /\ apc = [s \in ApprovalStreams |-> "off"]
  /\ used_key = [s \in ApprovalStreams |-> None]
  /\ key_via = [s \in ApprovalStreams |-> "none"]
  /\ approval_calls = 0
  /\ invalidated_at = None

\* lines 187-195: the loop of s caught an exception; the expiry is cleared
\* and the loop sleeps.  A lock s held was released on the way out of the
\* async with block.
SharedFailure(s) ==
  /\ approval_expires_at' = None
  /\ invalidated_at' = Some(approval_calls)
  /\ apc' = [apc EXCEPT ![s] = "backoff"]
  /\ ws_lock' = IF ws_lock = Some(s) THEN None ELSE ws_lock
  /\ UNCHANGED <<approval_key, used_key, key_via, approval_calls>>

\* lines 86-108: s has the lock; it returns the key another stream issued,
\* raises for want of credentials, or sends the POST
SharedLockedBlock(s) ==
  IF SharedRecheck(approval_key, approval_expires_at, utcnow)
    THEN /\ used_key' = [used_key EXCEPT ![s] = approval_key]
         /\ key_via' = [key_via EXCEPT ![s] = "recheck"]
         /\ apc' = [apc EXCEPT ![s] = "streaming"]
         /\ ws_lock' = None
         /\ UNCHANGED <<approval_key, approval_expires_at, approval_calls,
                        invalidated_at>>
  ELSE IF ~kis_app_key
    THEN SharedFailure(s)
  ELSE /\ approval_calls < MaxApprovalCalls
       /\ approval_calls' = approval_calls + 1
       /\ ws_lock' = Some(s)
       /\ apc' = [apc EXCEPT ![s] = "issuing"]
       /\ UNCHANGED <<approval_key, approval_expires_at, used_key, key_via,
                      invalidated_at>>

\* lines 142 and 82-84: the key is valid and is returned without the lock;
\* the loop goes on to connect and stream with it
SharedKeyCached(s) ==
  /\ UNCHANGED notSharing
  /\ apc[s] = "start"
  /\ ApprovalFresh(approval_key, approval_expires_at, utcnow)
  /\ used_key' = [used_key EXCEPT ![s] = approval_key]
  /\ key_via' = [key_via EXCEPT ![s] = "cache"]
  /\ apc' = [apc EXCEPT ![s] = "streaming"]
  /\ UNCHANGED <<utcnow, kis_app_key, approval_key, approval_expires_at, ws_lock,
                 approval_calls, invalidated_at>>

\* lines 82-86: the key is not valid and the lock is free: s takes it
\* without suspending and goes through the locked block
SharedKeyLock(s) ==
  /\ UNCHANGED notSharing
  /\ apc[s] = "start"
  /\ ~ApprovalFresh(approval_key, approval_expires_at, utcnow)
  /\ ws_lock = None /\ NoWaiters
  /\ SharedLockedBlock(s)
  /\ UNCHANGED <<utcnow, kis_app_key>>

\* lines 82-86: the key is not valid and the lock is taken: s waits for it
SharedKeyWait(s) ==
  /\ UNCHANGED notSharing
  /\ apc[s] = "start"
  /\ ~ApprovalFresh(approval_key, approval_expires_at, utcnow)
  /\ ws_lock # None \/ ~NoWaiters
  /\ apc' = [apc EXCEPT ![s] = "waiting"]
  /\ UNCHANGED <<utcnow, kis_app_key, approval_key, approval_expires_at, ws_lock,
                 used_key, key_via, approval_calls, invalidated_at>>

\* line 86: the lock was released and s, who waited, takes it and goes
\* through the locked block
SharedKeyRecheck(s) ==
  /\ UNCHANGED notSharing
  /\ apc[s] = "waiting"
  /\ ws_lock = None
  /\ SharedLockedBlock(s)
  /\ UNCHANGED <<utcnow, kis_app_key>>

\* lines 109-130: the approval endpoint answered the POST of s
SharedApprovalResponse(s, ok) ==
  /\ UNCHANGED notSharing
  /\ apc[s] = "issuing"
  /\ IF ok
       THEN /\ approval_key' = Some(approval_calls)
            /\ approval_expires_at' = Some(utcnow + ApprovalLifetime)
            /\ ws_lock' = None
            /\ used_key' = [used_key EXCEPT ![s] = Some(approval_calls)]
            /\ key_via' = [key_via EXCEPT ![s] = "issued"]
            /\ apc' = [apc EXCEPT ![s] = "streaming"]
            /\ UNCHANGED <<approval_calls, invalidated_at>>
       ELSE SharedFailure(s)
  /\ UNCHANGED <<utcnow, kis_app_key>>

\* lines 159-195: the connection of s (being opened, subscribed or
\* streaming) ends
SharedStreamEnds(s, how) ==
  /\ UNCHANGED notSharing
  /\ apc[s] = "streaming"
  /\ IF how = "error"
       THEN SharedFailure(s)
       ELSE /\ apc' = [apc EXCEPT ![s] = "start"]
            /\ UNCHANGED <<approval_key, approval_expires_at, ws_lock, used_key,
                           key_via, approval_calls, invalidated_at>>
  /\ UNCHANGED <<utcnow, kis_app_key>>

\* lines 194-195: the sleep of s is over
SharedBackoffDone(s) ==
  /\ UNCHANGED notSharing
  /\ apc[s] = "backoff"
  /\ apc' = [apc EXCEPT ![s] = "start"]
  /\ UNCHANGED <<utcnow, kis_app_key, approval_key, approval_expires_at, ws_lock,
                 used_key, key_via, approval_calls, invalidated_at>>

\* time passes until the shared key is within the margin of its expiry
SharedKeyAges ==
  /\ UNCHANGED notSharing
  /\ approval_expires_at # None
  /\ utcnow < Val(approval_expires_at) - Margin
  /\ Val(approval_expires_at) - Margin <= MaxStreamClock
  /\ utcnow' = Val(approval_expires_at) - Margin
  /\ UNCHANGED <<kis_app_key, approval_key, approval_expires_at, ws_lock,
                 sharingVars>>

NextSharing ==
  \/ \E s \in ApprovalStreams : SharedKeyCached(s)
  \/ \E s \in ApprovalStreams : SharedKeyLock(s)
  \/ \E s \in ApprovalStreams : SharedKeyWait(s)
  \/ \E s \in ApprovalStreams : SharedKeyRecheck(s)
  \/ \E s \in ApprovalStreams, ok \in BOOLEAN : SharedApprovalResponse(s, ok)
  \/ \E s \in ApprovalStreams, how \in StreamEnds : SharedStreamEnds(s, how)
  \/ \E s \in ApprovalStreams : SharedBackoffDone(s)
  \/ SharedKeyAges

----------------------------------------------------------------------------
(***************************************************************************)
(*                          Specifications                                 *)
(***************************************************************************)

\* the request path at rest, and the later components at rest
IdleCore == IdleToken /\ IdleRate /\ IdleRequest /\ IdleCache /\ IdleIntraday

IdleExt ==
  /\ IdleSign /\ IdleResample /\ IdleStream /\ IdleHandler /\ IdleRouter
  /\ IdleSources /\ IdleSharing

InitTokenSpec ==
  InitToken /\ IdleRate /\ IdleRequest /\ IdleCache /\ IdleIntraday /\ IdleExt

SpecToken == InitTokenSpec /\ [][NextToken]_vars

InitRateSpec ==
  IdleToken /\ InitRate /\ IdleRequest /\ IdleCache /\ IdleIntraday /\ IdleExt

SpecRateLimit == InitRateSpec /\ [][NextRate]_vars

SpecRateLimitFair == InitRateSpec /\ [][NextRateFair]_vars /\ FairnessRate

InitRequestSpec ==
  InitRequestToken /\ IdleRate /\ InitRequest /\ IdleCache /\ IdleIntraday /\ IdleExt

SpecRequest == InitRequestSpec /\ [][NextRequest]_vars

InitCacheSpec ==
  IdleToken /\ IdleRate /\ IdleRequest /\ InitCache /\ IdleIntraday /\ IdleExt

SpecCache == InitCacheSpec /\ [][NextCache]_vars

InitIntradaySpec ==
  IdleToken /\ IdleRate /\ IdleRequest /\ IdleCache /\ InitIntraday /\ IdleExt

SpecIntraday == InitIntradaySpec /\ [][NextIntraday]_vars

InitSignSpec ==
  IdleCore /\ InitSign /\ IdleResample /\ IdleStream /\ IdleHandler /\ IdleRouter
  /\ IdleSources /\ IdleSharing

SpecSign == InitSignSpec /\ [][NextSign]_vars

InitResampleSpec ==
  IdleCore /\ IdleSign /\ InitResample /\ IdleStream /\ IdleHandler /\ IdleRouter
  /\ IdleSources /\ IdleSharing

SpecResample == InitResampleSpec /\ [][NextResample]_vars

InitStreamSpec ==
  /\ InitStreamSettings /\ IdleRate /\ IdleRequest /\ IdleCache /\ IdleIntraday
  /\ IdleSign /\ IdleResample /\ InitStream /\ IdleHandler /\ IdleRouter
  /\ IdleSources /\ IdleSharing

SpecStream == InitStreamSpec /\ [][NextStream]_vars

InitWsHandlerSpec ==
  /\ InitStreamSettings /\ IdleRate /\ IdleRequest /\ IdleCache /\ IdleIntraday
  /\ IdleSign /\ IdleResample /\ IdleStream /\ InitHandler /\ IdleRouter
  /\ IdleSources /\ IdleSharing

SpecWsHandler == InitWsHandlerSpec /\ [][NextWsHandler]_vars

InitRouterSpec ==
  /\ IdleToken /\ IdleRate /\ IdleRequest /\ IdleCache /\ IdleIntraday
  /\ IdleSign /\ IdleResample /\ IdleStream /\ IdleHandler /\ InitRouter
  /\ IdleSources /\ IdleSharing

SpecRouter == InitRouterSpec /\ [][NextRouter]_vars

InitSourcesSpec ==
  /\ IdleCore
  /\ IdleSign /\ IdleResample /\ IdleStream /\ IdleHandler /\ IdleRouter
  /\ InitSources /\ IdleSharing

SpecSources == InitSourcesSpec /\ [][NextSources]_vars

\* several streams of one process share the approval key
InitSharingSpec ==
  /\ InitStreamSettings /\ IdleRate /\ IdleRequest /\ IdleCache /\ IdleIntraday
  /\ IdleSign /\ IdleResample /\ IdleStream /\ IdleHandler /\ IdleRouter
  /\ IdleSources /\ InitSharing

SpecSharing == InitSharingSpec /\ [][NextSharing]_vars

----------------------------------------------------------------------------
(***************************************************************************)
(*                             Properties                                  *)
(***************************************************************************)

\* both callers were invoked while the cached token was stale, their calls
\* overlapped, and both have returned a token
BothReturnedFromStale(c, d) ==
  /\ c # d
  /\ tpc[c] = "done" /\ tpc[d] = "done"
  /\ tlog[c].stale_at_call /\ tlog[d].stale_at_call
  /\ tlog[c].overlapped /\ tlog[d].overlapped

\* C1 as stated: two concurrent callers that find the token expired or absent
\* cause exactly one issuance call, whatever the successful response, and
\* both return the issued token.
C1_ExactlyOneIssuanceAnyResponse ==
  \A c, d \in Callers :
    BothReturnedFromStale(c, d) => issue_calls = 1 /\ tret[c] = tret[d]

\* C1 amended: the same, provided the token issued by the first caller is
\* still more than 60 s from its expiry when the other caller checks it.
C1_ExactlyOneIssuanceWhileFresh ==
  \A c, d \in Callers :
    ( /\ BothReturnedFromStale(c, d)
      /\ tlog[c].issued /\ tret[c] = Some(1)
      /\ tlog[d].checked_at < tlog[c].exp_issued - Margin )
    => issue_calls = 1 /\ tret[d] = Some(1) /\ ~tlog[d].issued

C1_Witness ==
  \E c, d \in Callers :
    /\ BothReturnedFromStale(c, d)
    /\ tlog[c].issued /\ tret[c] = Some(1)
    /\ tlog[d].checked_at < tlog[c].exp_issued - Margin
    /\ tlog[d].checked_at > 0
    /\ issue_calls = 1 /\ tret[d] = Some(1)

\* C2: with a limit of N > 0 requests per second, any N+1 consecutively
\* granted slots span at least one second (the window), for every
\* interleaving of the callers.
C2_WindowNeverExceeded ==
  max_rps > 0 =>
    \A i \in 1..Len(grants) :
      i + max_rps <= Len(grants) => grants[i + max_rps] - grants[i] >= window_seconds

\* N+1 slots were granted and the last one came exactly when the first left
\* the window, after its caller had slept
C2_Witness ==
  /\ max_rps > 0
  /\ Len(grants) > max_rps
  /\ grants[1 + max_rps] - grants[1] = window_seconds
  /\ \E c \in RateCallers : rwake[c] > 0

RECURSIVE Count(_, _)
Count(seq, x) ==
  IF seq = <<>> THEN 0
  ELSE (IF Head(seq) = x THEN 1 ELSE 0) + Count(Tail(seq), x)

Dispatches == Count(events, "dispatch")
Sleeps == Count(events, "sleep")

\* an error after which the contract allows another attempt: a network or
\* timeout error, or an upstream error with status 408, 429 or >= 500
RetriableByContract(e) ==
  \/ e.type \in {"httpx.TimeoutException", "httpx.RequestError"}
  \/ e.type = "KISError" /\ (e.status_code \in {408, 429} \/ e.status_code >= 500)

\* C3: request(retries=R) dispatches at most R+1 times; an attempt is repeated
\* only after a retriable error; an error that is not retriable is the last
\* one: it propagates unchanged with no sleep or dispatch after it, and when
\* it answers the first dispatch there was exactly one dispatch and no sleep.
C3_BoundedClassifiedRetry ==
  /\ Dispatches <= retries + 1
  /\ Sleeps <= retries
  /\ \A i \in 1..Len(attempt_errors) :
       /\ i <= Sleeps => RetriableByContract(attempt_errors[i])
       /\ ~RetriableByContract(attempt_errors[i]) =>
            /\ i = Len(attempt_errors)
            /\ qpc = "raised"
            /\ outcome = attempt_errors[i]
            /\ Sleeps = i - 1
  /\ ( /\ attempt_errors # <<>>
       /\ ~RetriableByContract(attempt_errors[1])
       /\ attempt_errors[1].source = "dispatch" )
     => Dispatches = 1 /\ Sleeps = 0

\* a 500 was retried and the 404 that answered the retry propagated
C3_Witness ==
  /\ qpc = "raised"
  /\ Len(attempt_errors) = 2
  /\ attempt_errors[1].status_code = 500
  /\ attempt_errors[1].source = "dispatch"
  /\ attempt_errors[2].status_code = 404
  /\ outcome.status_code = 404
  /\ retries = 2 /\ Dispatches = 2 /\ Sleeps = 1

\* C4: with the app key/secret or the base URL not configured, request fails
\* on its first attempt: no backoff sleep, no second attempt, no dispatch.
C4_ConfigErrorNotRetried ==
  (~kis_app_key \/ ~kis_base_url) =>
    /\ attempt = 0
    /\ Sleeps = 0
    /\ Dispatches = 0
    /\ qpc # "returned"

C6_ExpiredEntryAbsentAndRemoved ==
  ( /\ last_get # None
    /\ Val(last_get).before # None
    /\ Val(Val(last_get).before).expires_at <= monotonic )
  => /\ Val(last_get).result = None
     /\ Lookup(store, Val(last_get).key) = None

\* a get found an entry that expired exactly now, and no sweep was due
C6_Witness ==
  /\ last_get # None
  /\ Val(last_get).before # None
  /\ Val(Val(last_get).before).expires_at = monotonic
  /\ next_cleanup_at > monotonic + 1
  /\ Val(last_get).result = None
  /\ Lookup(store, Val(last_get).key) = None

\* the get just made follows a set of its key with ttl <= 0
GetAfterIgnoredSet ==
  /\ last_get # None
  /\ Val(last_get).after_set # None
  /\ Val(Val(last_get).after_set).key = Val(last_get).key
  /\ ~Val(Val(last_get).after_set).ttl_positive

\* C7 as stated: set(k, v, ttl <= 0) followed by get(k) answers absent,
\* whatever cache operations came before.
C7_IgnoredSetThenGetAbsent ==
  GetAfterIgnoredSet => Val(last_get).result = None

\* C7 amended: set(k, v, ttl <= 0) stores nothing and leaves the entry of k as
\* it was, so the following get(k) answers absent when k had no live entry
\* and otherwise answers with the value k already had.
C7_IgnoredSetLeavesEntry ==
  GetAfterIgnoredSet =>
    LET old == Val(Val(last_get).after_set).before IN
      /\ Val(last_get).before = old
      /\ Val(last_get).result =
           IF old # None /\ monotonic < Val(old).expires_at
             THEN Some(Val(old).value) ELSE None

\* k had no live entry, set(k, v, ttl <= 0) was made and get(k) answered absent
C7_Witness ==
  /\ GetAfterIgnoredSet
  /\ Val(Val(last_get).after_set).before = None
  /\ Val(last_get).result = None
  /\ store # <<>>

\* C8: after set(k, v, T) with T > 0 and while k is not set again, a get(k)
\* made before T has elapsed answers v, whatever gets, sets of other keys and
\* sweeps came in between, and a get(k) made at or after that answers absent.
C8_VisibleUntilTtlElapsed ==
  last_get # None =>
    LET k == Val(last_get).key IN
      live[k] # None =>
        Val(last_get).result =
          IF monotonic < Val(live[k]).deadline
            THEN Some(Val(live[k]).value) ELSE None

\* a get answered v one tick before its deadline, after a later sweep pass
\* had removed another key's expired entry
C8_Witness ==
  /\ last_get # None
  /\ live[Val(last_get).key] # None
  /\ Val(live[Val(last_get).key]).deadline = monotonic + 1
  /\ Val(last_get).result = Some(Val(live[Val(last_get).key]).value)
  /\ \E o \in Keys \ {Val(last_get).key} :
       /\ live[o] # None
       /\ Val(live[o]).deadline <= monotonic
       /\ Lookup(store, o) = None
  /\ next_cleanup_at >= cleanup_interval_seconds + 1

\* C9: the reconstruction makes at most 20 page iterations whatever the
\* upstream answers, and no two of the rows it has merged (and returns) have
\* the same (date, time) key.
C9_BoundedPagesNoDuplicates ==
  /\ calls <= max_calls
  /\ \A i, j \in 1..Len(merged_rows) :
       i # j => SeriesRowKey(merged_rows[i]) # SeriesRowKey(merged_rows[j])

\* the reconstruction returned at the ceiling, with every time slot merged
C9_Witness ==
  /\ ipc = "done"
  /\ calls = max_calls
  /\ Len(merged_rows) = 3

C20_MarginDecidesIssuance ==
  [][\A c \in Callers :
       /\ ( tpc[c] \in {"fast", "recheck"} /\ tpc'[c] = "done" )
            => /\ access_token # None /\ expires_at # None
               /\ utcnow < Val(expires_at) - Margin
               /\ tret'[c] = access_token
               /\ issue_calls' = issue_calls
               /\ access_token' = access_token /\ expires_at' = expires_at
       /\ ( /\ tpc[c] = "recheck" /\ tpc'[c] # "recheck" /\ kis_app_key
            /\ (access_token = None \/ expires_at = None
                \/ utcnow >= Val(expires_at) - Margin) )
            => tpc'[c] = "issuing" /\ issue_calls' = issue_calls + 1
       /\ ( tpc[c] = "issuing" /\ tpc'[c] = "done" )
            => /\ tret'[c] = Some(issue_calls)
               /\ access_token' = tret'[c]
               /\ \E e \in ExpiresInValues : expires_at' = Some(utcnow + e)
     ]_vars

\* one caller was answered from the cache and, later, another found the same
\* token inside the margin, issued a new one and stored it
C20_Witness ==
  \E c, d \in Callers :
    /\ c # d /\ tpc[c] = "done" /\ tpc[d] = "done"
    /\ tret[d] = Some(0) /\ ~tlog[d].issued
    /\ tlog[c].issued /\ tret[c] = Some(1) /\ tlog[c].checked_at > 0
    /\ access_token = Some(1) /\ expires_at = Some(tlog[c].exp_issued)

\* the raw texts of non-negative magnitudes, each with its magnitude in tenths
NonNegativeTexts ==
  { <<(<<"0">>), 0>>, <<(<<"1", "0", "0">>), 1000>>,
    <<(<<"1", ",", "0", "0", "0">>), 10000>>, <<(<<" ", "5", " ">>), 50>>,
    <<(<<"2", ".", "5">>), 25>>, <<(<<".", "5">>), 5>>, <<(<<"7", ".">>), 70>> }

Signed(m, sign) == IF sign \in {Some("4"), Some("5")} THEN Some(0 - m) ELSE Some(m)

\* C18: for every non-negative magnitude m, _apply_sign and _to_signed give
\* -m for the sign codes 4 and 5 and +m for every other sign code or none;
\* 100 with sign 5 gives -100 and 100 with sign 2 gives +100.
C18_SignAdjustment ==
  /\ \A s \in NonNegativeTexts :
       prdy_vrss = Some(s[1]) =>
         /\ change.done => change.value = Signed(s[2], prdy_vrss_sign)
         /\ ws_change.done => ws_change.value = Signed(s[2], prdy_vrss_sign)
  /\ ( prdy_vrss = Some(<<"1", "0", "0">>) /\ change.done /\ ws_change.done ) =>
       /\ prdy_vrss_sign = Some("5") =>
            change.value = Some(0 - 1000) /\ ws_change.value = Some(0 - 1000)
       /\ prdy_vrss_sign = Some("2") =>
            change.value = Some(1000) /\ ws_change.value = Some(1000)

\* both functions have turned 100 with sign code 5 into -100
C18_Witness ==
  /\ prdy_vrss = Some(<<"1", "0", "0">>) /\ prdy_vrss_sign = Some("5")
  /\ change = [done |-> TRUE, value |-> Some(0 - 1000)]
  /\ ws_change = [done |-> TRUE, value |-> Some(0 - 1000)]

\* the start of the window of interval_minutes that holds the time t
WindowStart(t) ==
  (t \div (interval_minutes * MsPerMinute)) * (interval_minutes * MsPerMinute)

\* the input points (by position) that fall into the window starting at ts
PointsInWindow(ts) ==
  {i \in 1..Len(raw_points) : WindowStart(raw_points[i].t) = ts}

\* the earliest and the latest of a set of input points; among points of one
\* timestamp the order of the input decides
Earliest(S) ==
  CHOOSE i \in S : \A j \in S :
    \/ raw_points[i].t < raw_points[j].t
    \/ raw_points[i].t = raw_points[j].t /\ i <= j

Latest(S) ==
  CHOOSE i \in S : \A j \in S :
    \/ raw_points[i].t > raw_points[j].t
    \/ raw_points[i].t = raw_points[j].t /\ i >= j

RECURSIVE VolumeOf(_)
VolumeOf(S) ==
  IF S = {} THEN 0
  ELSE LET i == CHOOSE x \in S : TRUE IN raw_points[i].v + VolumeOf(S \ {i})

\* C19: every output bucket of _resample_points has t = the input t truncated
\* to a multiple of the interval, the open of its earliest point, the maximum
\* high, the minimum low, the close of its latest point and the sum of the
\* volumes of its points; the buckets have distinct, ascending timestamps and
\* every input point falls into one of them; five 1-minute points of one
\* 5-minute window with opens and closes 1..5, highs 10, lows 1 and volumes
\* 100 give the single bucket open=1, high=10, low=1, close=5, volume=500.
C19_ResampleBuckets ==
  resampled.done =>
    LET buckets == resampled.value IN
      /\ \A k \in 1..Len(buckets) :
           LET b == buckets[k]
               S == PointsInWindow(b.t)
           IN /\ S # {}
              /\ b.t % (interval_minutes * MsPerMinute) = 0
              /\ b.o = raw_points[Earliest(S)].o
              /\ b.c = raw_points[Latest(S)].c
              /\ \A i \in S : raw_points[i].h <= b.h /\ raw_points[i].l >= b.l
              /\ \E i \in S : raw_points[i].h = b.h
              /\ \E i \in S : raw_points[i].l = b.l
              /\ b.v = VolumeOf(S)
      /\ \A k \in 1..(Len(buckets) - 1) : buckets[k].t < buckets[k + 1].t
      /\ \A i \in 1..Len(raw_points) :
           \E k \in 1..Len(buckets) : buckets[k].t = WindowStart(raw_points[i].t)
      /\ ( raw_points = FiveMinutePoints /\ interval_minutes = 5 ) =>
           buckets = << [t |-> 5 * MsPerMinute, o |-> 1, h |-> 10, l |-> 1,
                         c |-> 5, v |-> 500] >>

\* the five 1-minute points were resampled into one 5-minute bucket
C19_Witness ==
  /\ resampled.done
  /\ raw_points = FiveMinutePoints /\ interval_minutes = 5
  /\ Len(resampled.value) = 1 /\ resampled.value[1].v = 500

\* C12: when the consumer callback raises while a tick is forwarded, the
\* stream loop returns normally: it does not raise, makes no further
\* connection attempt, performs no backoff sleep and leaves the approval key
\* and its expiry as they were.
C12_CallbackFailureEndsStream ==
  [][/\ ( spc = "callback" /\ spc' \notin {"callback", "recv", "cancelled"} )
          => /\ spc' = "returned"
             /\ last_exit' = "callback"
             /\ approval_key' = approval_key
             /\ approval_expires_at' = approval_expires_at
             /\ backoff' = backoff /\ retry_count' = retry_count
     /\ spc = "returned" => UNCHANGED streamVars
    ]_vars

\* the callback failed after an earlier failure had been retried: the loop
\* has returned and the re-issued approval key is still in place
C12_Witness ==
  /\ spc = "returned" /\ last_exit = "callback"
  /\ approval_key # None /\ approval_expires_at # None
  /\ backoff > 0 /\ retry_count = 0

C14_RunsUntilCancelled ==
  /\ spc # "raised"
  /\ spc = "returned" => last_exit = "callback"
  /\ spc \in LivePcs => ENABLED StreamCancel
  /\ spc = "backoff" => ENABLED StreamBackoffDone
  /\ spc \notin LivePcs => spc \in {"returned", "cancelled"}

\* without credentials the loop has failed and slept twice and is about to
\* try a third time
C14_Witness ==
  /\ ~kis_app_key /\ last_exit = "config"
  /\ spc = "start" /\ retry_count = 2

\* C15: in the /ws/current handler, whenever the disconnect watcher is among
\* the tasks finished when the handler wakes (the stream task may have
\* finished as well), the handler takes the disconnect branch: it calls
\* stream_task.cancel(), awaits the stream task and never cancels the watcher;
\* whenever the handler returns after accept, both the stream task and the
\* watcher have finished.
C15_DisconnectFirstNoOrphans ==
  /\ ( hpc = "returned" /\ code_valid ) => StreamFinished /\ DisconnectFinished
  /\ "disconnect" \in wait_done =>
       /\ stream_cancel_called
       /\ disconnect_task = "returned"
       /\ hpc \in {"await_stream", "returned"}
  /\ ( wait_done # {} /\ "disconnect" \notin wait_done ) =>
       /\ ~stream_cancel_called
       /\ spc \in {"returned", "raised"}

\* both tasks had finished when the handler woke: the disconnect branch was
\* taken and the handler has returned
C15_Witness ==
  /\ hpc = "returned" /\ wait_done = {"stream", "disconnect"}
  /\ stream_cancel_called /\ spc = "returned" /\ disconnect_task = "returned"

\* the cache holds a live entry under key k: Optional value
LiveValue(st, k, now) ==
  IF \E i \in 1..Len(st) : st[i].key = k /\ st[i].expires_at > now
    THEN Some(st[CHOOSE i \in 1..Len(st) : st[i].key = k].value)
    ELSE None

\* slot q takes up a request in this step and goes on to the upstream
StartsFetching(q) == rq[q].pc = "idle" /\ rq'[q].pc = "fetching"

\* the client's last honoured bypass is less than a cooldown ago
InCooldown(client) ==
  /\ last_honored[client] # None
  /\ monotonic < Val(last_honored[client]) + cooldown_seconds

\* C16: with a cooldown > 0, a cache-bypass request of a client is honoured
\* only if no bypass of that client (for the code and range) was honoured
\* less than a cooldown ago, also when its requests overlap; a bypass request
\* that is not honoured falls inside such a window and is served like an
\* ordinary request: from the cache if the response is there, else by a fetch
\* whose response is stored.
C16_OneBypassPerCooldown ==
  [][cooldown_seconds > 0 =>
       /\ \A q \in Slots :
            /\ ( StartsFetching(q) /\ rq'[q].bypass_cache )
                 => /\ rq'[q].bypass_requested
                    /\ ~InCooldown(rq'[q].client)
            /\ ( StartsFetching(q) /\ rq'[q].bypass_requested
                 /\ ~rq'[q].bypass_cache )
                 => /\ InCooldown(rq'[q].client)
                    /\ LiveValue(store, SeriesKey, monotonic) = None
       /\ ( last_response' # last_response /\ last_response'.outcome = "cached"
            /\ last_response'.bypass_requested )
            => /\ \E c \in Clients : InCooldown(c)
               /\ ~last_response'.bypass_cache
               /\ last_response'.value = LiveValue(store, SeriesKey, monotonic)
    ]_vars

\* two overlapping bypass requests of one client: one was honoured, the
\* other, arriving within the cooldown, was not
C16_Witness ==
  /\ cooldown_seconds > 0
  /\ \E q, p \in Slots :
       /\ rq[q].pc = "fetching" /\ rq[p].pc = "fetching"
       /\ rq[q].client = rq[p].client
       /\ rq[q].bypass_requested /\ rq[p].bypass_requested
       /\ rq[q].bypass_cache /\ ~rq[p].bypass_cache

\* slot q returns, in this step, the response it has built
ReturnsBuilt(q) ==
  /\ rq[q].pc = "fetching" /\ rq'[q].pc = "idle"
  /\ last_response'.outcome = "built"

\* the response just returned is in the cache under its key, with its ttl
StoredAsReturned ==
  \E i \in 1..Len(store') :
    /\ store'[i].key = ResponseKey(last_response'.kind)
    /\ Some(store'[i].value) = last_response'.value
    /\ store'[i].expires_at = monotonic + ResponseTtl(last_response'.kind)

\* C17 as stated: every overview or series request that is not answered from
\* the cache (miss or honoured bypass) and completes successfully stores the
\* response it built under its key before returning it.
C17_EveryBuiltResponseStored ==
  [][\A q \in Slots : ReturnsBuilt(q) => StoredAsReturned]_vars

\* C17 amended: an overview request, or a series request whose bypass was not
\* honoured, that missed the cache and completes successfully stores the
\* response it built under its key, with its ttl, before returning it, and a
\* request that does not bypass the cache goes upstream only if the cache
\* holds no live response under its key (else it is answered with the cached
\* one); a series request whose bypass was honoured returns the response it
\* built and leaves the cache as it was.
C17_MissStoresBypassDoesNot ==
  [][/\ \A q \in Slots :
          /\ ( ReturnsBuilt(q) /\ ~last_response'.bypass_cache ) => StoredAsReturned
          /\ ( ReturnsBuilt(q) /\ last_response'.bypass_cache ) => store' = store
          /\ ( StartsFetching(q) /\ ~rq'[q].bypass_cache )
               => LiveValue(store, ResponseKey(rq'[q].kind), monotonic) = None
     /\ ( last_response' # last_response /\ last_response'.outcome = "cached" )
          => /\ last_response'.value # None
             /\ last_response'.value
                  = LiveValue(store, ResponseKey(last_response'.kind), monotonic)
    ]_vars

\* a series response built earlier was served from the cache to a later
\* request, and it is still stored
C17_Witness ==
  /\ last_response.outcome = "cached" /\ last_response.kind = "series"
  /\ last_response.value # None
  /\ monotonic > 0 /\ Val(last_response.value).at < monotonic
  /\ LiveValue(store, SeriesKey, monotonic) = last_response.value

\* C11: a 1d series request whose intraday reconstruction succeeded ends
\* with a series response whatever subset of the three extended-hours
\* sources failed, and each of the three was attempted exactly once.
C11_SourceFailureNeverFailsRequest ==
  (series_pc = "done" /\ regular_rows # None)
    => /\ series_result.outcome = "response"
       /\ \A s \in Sources : source_attempts[s] = 1

\* C21: when the issuance fails (credentials unset, network error, HTTP
\* status >= 400, non-JSON or incomplete body) the caller gets an error, the
\* cached token and its expiry are what they were, and the caller, who held
\* the lock, has released it; the lock is only ever held by a caller that is
\* inside the locked block, so a waiting caller can always go on to acquire
\* it, and a caller that then finds the cache stale sends a new issuance.
C21_FailedIssuanceLeavesCacheAndLock ==
  /\ [](\A c \in Callers :
          /\ lock = Some(c) => tpc[c] \in {"recheck", "issuing"}
          /\ tpc[c] \in {"recheck", "issuing"} => lock = Some(c)
          /\ tpc[c] = "failed" => terr[c] # None /\ tret[c] = None)
  /\ [][\A c \in Callers :
          /\ ( tpc[c] = "recheck" /\ tpc'[c] = "failed" )
               => /\ ~kis_app_key /\ terr'[c] = Some(500)
                  /\ issue_calls' = issue_calls
          /\ ( tpc[c] = "issuing" /\ tpc'[c] = "failed" )
               => \E resp \in TokenResponses :
                    /\ ~resp.net_ok \/ resp.status >= 400 \/ ~resp.json \/ ~resp.fields
                    /\ terr'[c] = Some(IssueResult(resp).status_code)
          /\ ( tpc[c] # "failed" /\ tpc'[c] = "failed" )
               => /\ lock = Some(c) /\ lock' = None
                  /\ access_token' = access_token /\ expires_at' = expires_at
          /\ ( tpc[c] = "issuing" /\ tpc'[c] # "issuing" )
               => ( tpc'[c] = "failed"
                    <=> access_token' = access_token /\ expires_at' = expires_at )
     ]_vars

\* one caller's issuance failed and the other, coming to the lock after it,
\* has sent a second issuance
C21_Witness ==
  \E c, d \in Callers :
    /\ c # d
    /\ tpc[c] = "failed" /\ terr[c] # None
    /\ tpc[d] = "issuing" /\ lock = Some(d)
    /\ issue_calls = 2

\* C22: in one call of request, every dispatch, of the first attempt and of a
\* retry alike, comes right after a rate-limit slot was acquired, which comes
\* right after a bearer token was obtained, all in the same attempt; an
\* attempt after the first begins right after a sleep, and the sleep before
\* retry number k lasts 0.2 * k seconds.
C22_TokenSlotDispatchAndLinearBackoff ==
  /\ \A i \in 1..Len(events) :
       /\ events[i] = "dispatch"
            => i >= 3 /\ events[i - 1] = "slot" /\ events[i - 2] = "token"
       /\ events[i] = "slot" => i >= 2 /\ events[i - 1] = "token"
       /\ (events[i] = "token" /\ i > 1) => events[i - 1] = "sleep"
  /\ Len(request_sleeps) = Cardinality({i \in 1..Len(events) : events[i] = "sleep"})
  /\ Len(request_sleeps) = IF qpc = "backoff" THEN attempt + 1 ELSE attempt
  /\ Len(request_sleeps) <= retries
  /\ \A k \in 1..Len(request_sleeps) : request_sleeps[k] = 2 * k
  /\ Cardinality({i \in 1..Len(events) : events[i] = "dispatch"}) <= attempt + 1

\* the second retry was dispatched: three dispatches, each after its own token
\* and slot, and sleeps of 0.2 s and 0.4 s before the retries
C22_Witness ==
  /\ Cardinality({i \in 1..Len(events) : events[i] = "dispatch"}) = 3
  /\ Cardinality({i \in 1..Len(events) : events[i] = "slot"}) = 3
  /\ request_sleeps = <<2, 4>>
  /\ attempt = 2

\* C23: a caller goes to sleep only when the pruned window is full; it then
\* sleeps until the oldest timestamp leaves the window, at least the floor,
\* having released the lock, and after the sleep it goes back to acquire the
\* lock and check again; the lock is held only while the locked body runs,
\* never by a sleeper; and, the calls being finitely many, every caller that
\* has entered eventually obtains its slot.
C23_SleepOutsideLockAndProgress ==
  /\ [](\A c \in RateCallers :
          /\ rate_limit_lock = Some(c) => rpc[c] = "locked"
          /\ rpc[c] = "locked" => rate_limit_lock = Some(c))
  /\ [][\A c \in RateCallers :
          /\ ( rpc[c] # "sleeping" /\ rpc'[c] = "sleeping" )
               => LET kept == PruneWindow(request_timestamps, monotonic - window_seconds)
                  IN /\ rpc[c] = "locked"
                     /\ Len(kept) >= max_rps
                     /\ rwake'[c] - monotonic
                          = Max(Head(kept) + window_seconds - monotonic, min_sleep)
                     /\ rwake'[c] - monotonic >= min_sleep
                     /\ rate_limit_lock' = None
                     /\ grants' = grants
          /\ ( rpc[c] = "sleeping" /\ rpc'[c] # "sleeping" )
               => /\ rpc'[c] = "acquire"
                  /\ monotonic >= rwake[c]
                  /\ grants' = grants
          /\ ( rpc[c] = "locked" /\ rpc'[c] = "idle" )
               => grants' = Append(grants, monotonic)
     ]_vars
  /\ \A c \in RateCallers : (rpc[c] # "idle") ~> (rpc[c] = "idle")

\* both callers are asleep at once, outside the lock, waiting for the same
\* slot to leave the window
C23_Witness ==
  /\ \A c \in RateCallers : rpc[c] = "sleeping" /\ rwake[c] > monotonic
  /\ rate_limit_lock = None
  /\ Len(request_timestamps) = max_rps

\* the keys of a store
KeysOf(st) == {st[i].key : i \in 1..Len(st)}

\* the entries of a store whose expiry has not passed at time now
LiveEntries(st, now) == {st[i] : i \in {j \in 1..Len(st) : st[j].expires_at > now}}

\* the sweep pass a get or set would make in this state
PassNow == CleanupExpiredLocked(store, next_cleanup_at, monotonic)

\* C24: a sweep pass is made only by a get or a set that stores, and only
\* when the clock has reached the scheduled deadline; it removes nothing but
\* entries whose expiry has passed, at most max_cleanup_per_run of them, keeps
\* every live entry, and schedules the next pass cleanup_interval after its
\* own time, so two passes are at least cleanup_interval apart.
C24_SweepBoundedAndSpaced ==
  /\ [](/\ monotonic < next_cleanup_at => PassNow = <<store, next_cleanup_at>>
        /\ monotonic >= next_cleanup_at
             => /\ PassNow[2] = monotonic + cleanup_interval_seconds
                /\ Len(store) - Len(PassNow[1]) <= max_cleanup_per_run
                /\ KeysOf(PassNow[1]) \subseteq KeysOf(store)
                /\ \A i \in 1..Len(store) :
                     store[i].key \notin KeysOf(PassNow[1])
                       => store[i].expires_at <= monotonic
                /\ LiveEntries(store, monotonic) \subseteq
                     {PassNow[1][i] : i \in 1..Len(PassNow[1])})
  /\ [][/\ next_cleanup_at' # next_cleanup_at
             => /\ last_get' # None \/ (last_set' # None /\ Val(last_set').ttl_positive)
                /\ monotonic' >= next_cleanup_at
                /\ next_cleanup_at' = monotonic' + cleanup_interval_seconds
                /\ next_cleanup_at > 0
                     => monotonic' - (next_cleanup_at - cleanup_interval_seconds)
                          >= cleanup_interval_seconds
        /\ next_cleanup_at' = next_cleanup_at
             => \A i \in 1..Len(store) :
                  store[i].key \notin KeysOf(store')
                    => /\ last_get' # None /\ Val(last_get').key = store[i].key
                       /\ store[i].expires_at <= monotonic'
        /\ \A i \in 1..Len(store) :
             ( store[i].expires_at > monotonic'
               /\ ~(last_set' # None /\ Val(last_set').ttl_positive
                    /\ Val(last_set').key = store[i].key) )
               => \E j \in 1..Len(store') : store'[j] = store[i]
     ]_vars

\* a get has just made a sweep pass that removed an expired entry and, having
\* reached its limit, left another expired entry in the store
C24_Witness ==
  /\ last_get # None
  /\ next_cleanup_at = monotonic + cleanup_interval_seconds
  /\ Val(last_get).before # None
  /\ Val(last_get).key \notin KeysOf(store)
  /\ \E i \in 1..Len(store) : store[i].expires_at <= monotonic


\* C25 as stated: the first page is fetched at a cursor within
\* [09:00:00, 15:30:00] (the clamped current time), and every later page
\* fetch of the reconstruction is made at a cursor strictly earlier than the
\* cursor of the fetch before it and never earlier than 09:00:00.
C25_CursorStrictlyEarlier ==
  /\ [](ipc = "fetch" /\ calls = 1 =>
          /\ cursor \in {MinuteCursorForNow(now) : now \in NowValues}
          /\ SessionOpen <= cursor /\ cursor <= SessionClose)
  /\ [][(ipc' = "fetch" /\ calls' = calls + 1) =>
          (cursor' < cursor /\ cursor' >= SessionOpen)]_vars

\* C25, what the loop does guarantee: the cursor of every page fetch lies
\* within [09:00:00, 15:30:00], a later fetch is never made at the cursor of
\* the fetch before it, and it is made at a strictly earlier cursor when
\* no row of the page before is later than the cursor it was fetched at
\* (here: the cursor is at or after the latest upstream time, 09:02:00).
C25_CursorMovesWithinSession ==
  /\ [](SessionOpen <= cursor /\ cursor <= SessionClose)
  /\ [][(ipc' = "fetch" /\ calls' = calls + 1) =>
          /\ cursor' # cursor
          /\ cursor >= 90200 => cursor' < cursor]_vars


\* C30: every row the reconstruction has merged (and returns) carries
\* today's date, whatever the pages held: a row of another date is never
\* merged into the result.
C30_OnlyTodayRowsMerged ==
  \A i \in 1..Len(merged_rows) : merged_rows[i].stck_bsop_date = "today"

\* the reconstruction returned rows after pages that held rows of
\* yesterday's date as well
C30_Witness ==
  /\ ipc = "done"
  /\ "yesterday" \in page_dates
  /\ Len(merged_rows) >= 2


\* the rows of a list under key k, and the place of the first of them
RowsUnder(rows, k) == {i \in 1..Len(rows) : NormalizedRowKey(rows[i]) = k}

FirstUnder(rows, k) == CHOOSE i \in RowsUnder(rows, k) : \A j \in RowsUnder(rows, k) : i <= j

\* C26: the rows _merge_series_rows returned (the local merged_rows of a 1d
\* series request) are in strictly ascending (date, time) key order, so no
\* two share a key; every key of an input row is there; under the key of a
\* regular-session row stands a regular-session row, never an extended-hours
\* one; under any other key stands the extended-hours row supplied first in
\* the order time-indexed rows, filler rows, daily anchor, single-point anchor.
C26_MergeKeepsRegularThenFirstOvertime ==
  (regular_rows # None /\ series_pc \in {"fallback", "done"}
     /\ series_result.outcome # "ValueError")
    => LET rows == Val(regular_rows)
           overtime_rows == series_result.overtime
           merged == series_result.merged
       IN /\ \A i \in 1..Len(merged) : \A j \in (i + 1)..Len(merged) :
               KeyLess(NormalizedRowKey(merged[i]), NormalizedRowKey(merged[j]))
          /\ \A i \in 1..Len(rows) : RowsUnder(merged, NormalizedRowKey(rows[i])) # {}
          /\ \A i \in 1..Len(overtime_rows) :
               RowsUnder(merged, NormalizedRowKey(overtime_rows[i])) # {}
          /\ \A i \in 1..Len(merged) :
               LET k == NormalizedRowKey(merged[i]) IN
                 IF RowsUnder(rows, k) # {}
                   THEN \E j \in RowsUnder(rows, k) : merged[i] = rows[j]
                   ELSE /\ RowsUnder(overtime_rows, k) # {}
                        /\ merged[i] = overtime_rows[FirstUnder(overtime_rows, k)]

\* a merge in which a time-indexed row had the key of a regular-session row
\* and another the key of a later time-indexed row and of an anchor
C26_Witness ==
  /\ series_pc = "done"
  /\ regular_rows # None
  /\ series_result.outcome = "response"
  /\ \E i \in 1..Len(Val(regular_rows)) : \E j \in 1..Len(series_result.overtime) :
       /\ NormalizedRowKey(Val(regular_rows)[i]) = NormalizedRowKey(series_result.overtime[j])
       /\ Val(regular_rows)[i] # series_result.overtime[j]
  /\ \E i, j \in 1..Len(series_result.overtime) :
       /\ i < j
       /\ NormalizedRowKey(series_result.overtime[i]) = NormalizedRowKey(series_result.overtime[j])
       /\ series_result.overtime[i] # series_result.overtime[j]
  /\ Len(series_result.merged) >= 2


\* C27 as stated: whenever an upstream connection (attempted, subscribed or
\* streaming) ends while the consumer is still connected, by an error or by
\* the server closing it, the loop goes into a backoff sleep of at least 6
\* seconds, so that a sleep lies between any two consecutive connection
\* attempts of the stream.
C27_BackoffBeforeEveryReconnect ==
  [][( /\ spc \in {"connect", "send", "recv"}
       /\ spc' \notin {"connect", "send", "recv", "callback", "cancelled"} )
       => /\ spc' = "backoff"
          /\ backoff' >= 6
          /\ backoff' = BackoffSeconds(retry_count')]_vars

\* C27, the failure half alone: an upstream connection that ends by an error
\* (connect, send, receive, pong or decode) is followed by a backoff sleep of
\* at least 6 seconds.
C27_BackoffAfterError ==
  [][( /\ spc \in {"connect", "send", "recv"}
       /\ last_exit' \in FailureCauses /\ last_exit' # "callback"
       /\ spc' \notin {"connect", "send", "recv", "callback", "cancelled"} )
       => /\ spc' = "backoff"
          /\ backoff' >= 6]_vars


\* the shared approval key is valid now
SharedKeyValid == ApprovalFresh(approval_key, approval_expires_at, utcnow)

\* C28 as stated: a stream that finds the shared approval key valid uses it
\* without an issuance call; of the streams that find it absent or
\* invalidated at the same time one makes the issuance call and the ones
\* that waited for the lock all use the issued key with no further call;
\* and once a stream's error has invalidated the key, every later connection
\* attempt uses a key of an issuance call made after that invalidation.
C28_OneIssuanceForAllWaiters ==
  [][\A s \in ApprovalStreams :
       /\ ( apc[s] = "start" /\ SharedKeyValid /\ apc'[s] # "start" )
            => /\ apc'[s] = "streaming" /\ used_key'[s] = approval_key
               /\ approval_calls' = approval_calls
       /\ ( apc[s] = "waiting" /\ apc'[s] # "waiting" )
            => /\ apc'[s] = "streaming" /\ used_key'[s] = approval_key
               /\ approval_calls' = approval_calls
       /\ ( apc[s] # "streaming" /\ apc'[s] = "streaming" /\ invalidated_at # None )
            => Val(used_key'[s]) > Val(invalidated_at)
    ]_vars

\* C28 amended: a stream that finds the shared approval key valid (expiry
\* set and more than 60 s away) uses it without an issuance call; an
\* issuance call is made only by the stream that holds the lock after it
\* found the key not valid under the lock, so at most one call is in flight;
\* a stream that waited for the lock re-checks and uses the key the holder
\* issued, with no call of its own, if the key is valid when it re-checks,
\* and makes the next issuance call itself if the holder's issuance failed
\* or a stream's error has invalidated the key meanwhile; no connection
\* attempt uses a key that is not valid when _get_approval_key returns it,
\* so after an invalidation the next attempt issues a key unless an issuance
\* that completed after the invalidation has already stored one.
C28_IssuedUnderLockReusedWhileValid ==
  /\ [](\A s \in ApprovalStreams :
          /\ apc[s] = "issuing" <=> ws_lock = Some(s)
          /\ apc[s] = "streaming" => used_key[s] # None)
  /\ [][/\ approval_calls' # approval_calls
             => /\ approval_calls' = approval_calls + 1
                /\ ~SharedKeyValid
                /\ ws_lock = None
                /\ \E s \in ApprovalStreams :
                     ws_lock' = Some(s) /\ apc[s] \in {"start", "waiting"}
        /\ \A s \in ApprovalStreams :
             /\ ( apc[s] = "start" /\ SharedKeyValid /\ apc'[s] # "start" )
                  => /\ apc'[s] = "streaming" /\ used_key'[s] = approval_key
                     /\ approval_calls' = approval_calls
             /\ ( apc[s] = "waiting" /\ apc'[s] # "waiting" )
                  => IF SharedKeyValid
                       THEN /\ apc'[s] = "streaming" /\ key_via'[s] = "recheck"
                            /\ used_key'[s] = approval_key
                            /\ approval_calls' = approval_calls
                     ELSE IF kis_app_key
                       THEN /\ apc'[s] = "issuing"
                            /\ approval_calls' = approval_calls + 1
                     ELSE apc'[s] = "backoff"
             /\ ( apc[s] = "start" /\ ~SharedKeyValid /\ apc'[s] # "start" )
                  => IF ws_lock # None \/ ~NoWaiters THEN apc'[s] = "waiting"
                     ELSE IF kis_app_key
                       THEN /\ apc'[s] = "issuing"
                            /\ approval_calls' = approval_calls + 1
                     ELSE apc'[s] = "backoff"
             /\ ( apc[s] # "streaming" /\ apc'[s] = "streaming" )
                  => /\ ApprovalFresh(approval_key', approval_expires_at', utcnow')
                     /\ used_key'[s] = approval_key'
       ]_vars

\* after an invalidation three streams found the key not valid at the same
\* time: one issued the second key, the two that waited for the lock got it
\* from the re-check, and all three stream with it
C28_Witness ==
  /\ approval_calls = 2 /\ invalidated_at = Some(1)
  /\ \A s \in ApprovalStreams : apc[s] = "streaming" /\ used_key[s] = Some(2)
  /\ \E s \in ApprovalStreams :
       /\ key_via[s] = "issued"
       /\ \A t \in ApprovalStreams \ {s} : key_via[t] = "recheck"


\* the entries a store holds under key k
EntriesUnder(st, k) == {st[i] : i \in {j \in 1..Len(st) : st[j].key = k}}

\* slot q ends its request, in this step, with the upstream error
EndsInError(q) ==
  /\ rq[q].pc = "fetching" /\ rq'[q].pc = "idle"
  /\ last_response'.outcome = "error"

\* C29: an overview or series request that ends in an upstream error writes
\* no response to the cache: the step in which it fails leaves the whole
\* cache as it was and returns no response, and the step in which it arrived
\* and missed left under its response key what was there (an entry already
\* expired may have been dropped by the lookup, none was added or changed);
\* a later request is answered from the cache only with a live response
\* found under its key, never after a miss.
C29_FailedRequestWritesNoResponse ==
  [][/\ \A q \in Slots :
          /\ EndsInError(q)
               => /\ store' = store /\ next_cleanup_at' = next_cleanup_at
                  /\ last_response'.value = None
                  /\ \A k \in {OverviewKey, SeriesKey} :
                       LiveValue(store', k, monotonic) = LiveValue(store, k, monotonic)
          /\ StartsFetching(q)
               => LET k == ResponseKey(rq'[q].kind) IN
                    /\ EntriesUnder(store', k) \subseteq EntriesUnder(store, k)
                    /\ \A e \in EntriesUnder(store, k) :
                         e.expires_at > monotonic => e \in EntriesUnder(store', k)
     /\ ( last_response' # last_response /\ last_response'.outcome = "cached" )
          => /\ last_response'.value # None
             /\ last_response'.value
                  = LiveValue(store, ResponseKey(last_response'.kind), monotonic)
    ]_vars

\* a series request has just failed while the cache holds a live series
\* response (stored by another request), which is still there
C29_Witness ==
  /\ last_response.outcome = "error"
  /\ last_response.kind = "series"
  /\ last_response.value = None
  /\ LiveValue(store, SeriesKey, monotonic) # None

====
